---- MODULE Spec2Model ----
(***************************************************************************)
(* A model of drivers/gpu/ion/ion.c (the ION buffer/handle lifecycle       *)
(* engine) built with CONFIG_ION_BCM and CONFIG_ION_OOM_KILLER.            *)
(*                                                                         *)
(* Objects (buffers, handles, clients, export objects) are records in      *)
(* functions indexed by small identifiers that stand for their addresses;  *)
(* an identifier is never reused, so a pointer to a kfree'd object stays   *)
(* recognisable as dangling.  The heap backends, kzalloc/vmalloc and the   *)
(* dma-buf core are collaborators: each call to them is a nondeterministic *)
(* input (an "outcome script").                                            *)
(***************************************************************************)
EXTENDS Integers, Sequences, FiniteSets, TLC

\* ------------------------------------------------------------------ bounds
MaxClients == 2
MaxBuffers == 2
MaxHandles == 2
MaxDmabufs == 1
MaxTime == 2
\* the most kernel mappings one handle takes, and the most references
\* imports put on one handle
MaxKmap == 2
MaxRef == 2
\* the threads that run operations step by step
MaxThreads == 3
\* width of the machine word of the model (size_t / unsigned int); the
\* target's is 32, every modular computation is taken % 2^WordBits
WordBits == 14

\* ------------------------------------------------------- program constants
PAGE_SIZE == 4096
\* (HZ): the clock of the model, jiffies, counts in units of HZ ticks
ION_OOM_TIMEOUT_JIFFIES == 1

Word == 2 ^ WordBits

ClientIds == 1 .. MaxClients
BufIds == 1 .. MaxBuffers
HandleIds == 1 .. MaxHandles
DmaIds == 1 .. MaxDmabufs
Threads == 1 .. MaxThreads

\* the heaps the platform registers (ion_device_add_heap), by heap->id, and
\* the id bits a heap_id_mask can carry; bit 2 names no registered heap
HeapIds == {0, 1}
\* heap->flags & ION_HEAP_FLAG_DEFER_FREE
DeferFree(h) == h = 1
\* optional heap operations: heap 1 has no ops->phys
HasPhys(h) == h = 0
HasMapKernel(h) == TRUE

NULL == 0

\* -------------------------------------------------------------------- state
VARIABLES
  buffers,      \* struct ion_buffer, by address: st, heap, size, flags, ref,
                \* handle_count, kmap_cnt, vaddr, pages
  dev_buffers,  \* dev->buffers: the global buffer index
  handles,      \* struct ion_handle, by address: st, client, buffer, ref, kmap_cnt
  chandles,     \* client->handles of each client: its handle set
  clients,      \* struct ion_client, by address: st, task, adj, deathpending,
                \* timeout, killed
  dev_clients,  \* dev->clients
  dmabufs,      \* struct dma_buf, by address: st, buffer
  free_list,    \* heap->free_list of each heap, head first
  used,         \* heap->used of each heap
  oom_kill_count, \* dev->oom_kill_count
  jiffies,
  pending,      \* ion_alloc calls asleep in msleep() before "goto retry"
  calls,        \* the heap operations the last step invoked, in order
  last,         \* the last operation: its name, arguments and result
  pc,           \* where each thread is in the operation it runs
  worker,       \* where each heap's deferred-free kthread is in its loop
  client_lock,  \* client->lock of each client: its owner, or NULL
  heap_lock     \* heap->lock of each heap: its owner, or NULL

vars == <<buffers, dev_buffers, handles, chandles, clients, dev_clients, dmabufs,
          free_list, used, oom_kill_count, jiffies, pending, calls, last,
          pc, worker, client_lock, heap_lock>>

\* the threads and the locks they hold
Threading == <<pc, worker, client_lock, heap_lock>>

\* the kernel objects as one record, so that a handler is a composition of
\* the functions it calls
St == [buffers |-> buffers, dev_buffers |-> dev_buffers, handles |-> handles,
       chandles |-> chandles, clients |-> clients, dev_clients |-> dev_clients,
       dmabufs |-> dmabufs, free_list |-> free_list, used |-> used,
       oom_kill_count |-> oom_kill_count, calls |-> <<>>,
       res |-> [buf |-> 0, err |-> "NULL"], retry_flag |-> FALSE]

Commit(s) ==
  /\ buffers' = s.buffers
  /\ dev_buffers' = s.dev_buffers
  /\ handles' = s.handles
  /\ chandles' = s.chandles
  /\ clients' = s.clients
  /\ dev_clients' = s.dev_clients
  /\ dmabufs' = s.dmabufs
  /\ free_list' = s.free_list
  /\ used' = s.used
  /\ oom_kill_count' = s.oom_kill_count
  /\ calls' = s.calls

\* torn counts the runs of _ion_buffer_destroy on the address
NoBuffer == [st |-> "none", heap |-> 0, size |-> 0, flags |-> {}, ref |-> 0,
             handle_count |-> 0, kmap_cnt |-> 0, vaddr |-> NULL, pages |-> FALSE,
             torn |-> 0]
NoHandle == [st |-> "none", client |-> 0, buffer |-> 0, ref |-> 0, kmap_cnt |-> 0]
NoClient == [st |-> "none", task |-> FALSE, adj |-> 0, deathpending |-> FALSE,
             timeout |-> 0, killed |-> FALSE]
NoDmabuf == [st |-> "none", buffer |-> 0]
\* kfree'd objects: what the memory holds afterwards is not part of the state
\* (a freed handle keeps the name of the client it was a handle of)
FreedBuffer == [NoBuffer EXCEPT !.st = "freed"]
FreedHandle(c) == [NoHandle EXCEPT !.st = "freed", !.client = c]
FreedClient == [NoClient EXCEPT !.st = "freed"]
\* a thread that runs no operation, and a worker at the top of its loop
\* (locks: the locks the thread holds, in the order it took them; prog: the
\* lock operations the operation it runs has still to do; inst: which client's,
\* buffer's or heap's lock each held lock is; want: the lock the thread waits
\* for)
NoPc == [at |-> "idle", client |-> 0, handle |-> 0, buf |-> 0, heap |-> 0,
         got |-> FALSE, put |-> FALSE, wake |-> {}, ret |-> "",
         locks |-> <<>>, prog |-> <<>>, todo |-> <<>>, orphaned |-> {}, shared |-> {},
         size |-> 0, inst |-> <<>>, want |-> <<>>]
NoWork == [at |-> "wait", buf |-> 0, woken |-> FALSE]
NoLast == [op |-> "idle", client |-> 0, handle |-> 0, fd |-> 0, len |-> 0,
           mask |-> {}, ret |-> "OK", val |-> 0]

\* a call of a collaborator: the operation, the heap, the object and, for an
\* operation that reports one, its result
CallR(s, op, heap, buf, r) ==
  [s EXCEPT !.calls = Append(@, [op |-> op, heap |-> heap, buf |-> buf, r |-> r])]
Call(s, op, heap, buf) == CallR(s, op, heap, buf, "")

\* the lowest address kzalloc has not handed out yet (0: the pool is used up)
FreshIn(f, ids) ==
  IF \E i \in ids : f[i].st = "none"
  THEN CHOOSE i \in ids : f[i].st = "none" /\ \A j \in ids : j < i => f[j].st # "none"
  ELSE 0

\* ------------------------------------------------------------ pure helpers
\* PAGE_ALIGN(len) on the machine word
PAGE_ALIGN(len) ==
  LET sum == (len + PAGE_SIZE - 1) % Word IN sum - (sum % PAGE_SIZE)

ion_buffer_fault_user_mappings(flags) ==
  "CACHED" \in flags /\ "CACHED_NEEDS_SYNC" \notin flags

\* a list of the heaps that begins with the lowest id
RECURSIVE HeapOrder_ascending(_)
HeapOrder_ascending(hs) ==
  IF hs = {} THEN <<>>
  ELSE LET h == CHOOSE x \in hs : \A y \in hs : x <= y
       IN <<h>> \o HeapOrder_ascending(hs \ {h})

\* the order plist_for_each_entry visits dev->heaps in: ion_device_add_heap
\* files each heap under priority -heap->id, so the highest id comes first
RECURSIVE HeapOrder(_)
HeapOrder(hs) ==
  IF hs = {} THEN <<>>
  ELSE LET h == CHOOSE x \in hs : \A y \in hs : y <= x
       IN <<h>> \o HeapOrder(hs \ {h})

\* rb_first/rb_next order of a tree keyed by address
RECURSIVE AddrOrder(_)
AddrOrder(S) ==
  IF S = {} THEN <<>>
  ELSE LET x == CHOOSE a \in S : \A b \in S : a <= b
       IN <<x>> \o AddrOrder(S \ {x})

\* ---------------------------------------------------------- buffer lifecycle
\* a teardown that does not look at the kernel-mapping count
_ion_buffer_destroy_unchecked(s, b) ==
  LET buf == s.buffers[b]
      s2 == Call(Call(s, "unmap_dma", buf.heap, b), "free", buf.heap, b)
  IN [s2 EXCEPT !.used[buf.heap] = @ - buf.size,
                !.buffers[b] = [FreedBuffer EXCEPT !.torn = buf.torn + 1]]

_ion_buffer_destroy(s, b) ==
  LET buf == s.buffers[b]
      s1 == IF buf.kmap_cnt > 0 THEN Call(s, "unmap_kernel", buf.heap, b) ELSE s
      s2 == Call(Call(s1, "unmap_dma", buf.heap, b), "free", buf.heap, b)
  IN [s2 EXCEPT !.used[buf.heap] = @ - buf.size,
                !.buffers[b] = [FreedBuffer EXCEPT !.torn = buf.torn + 1]]

\* the loop of ion_heap_drain_freelist: list_del and destroy every entry
RECURSIVE DrainAll(_, _)
DrainAll(s, h) ==
  IF s.free_list[h] = <<>> THEN s
  ELSE LET b == Head(s.free_list[h])
       IN DrainAll(_ion_buffer_destroy([s EXCEPT !.free_list[h] = Tail(@)], b), h)

\* a drain that leaves the list as it is
ion_heap_drain_freelist_nop(s, h) == s

ion_heap_drain_freelist(s, h) ==
  IF s.free_list[h] = <<>> THEN s ELSE DrainAll(s, h)

\* a release that leaves the buffer in the device's tree
ion_buffer_destroy_indexed(s, b) ==
  LET h == s.buffers[b].heap
  IN IF DeferFree(h)
     THEN Call([s EXCEPT !.free_list[h] = <<b>> \o @,
                         !.buffers[b].st = "freelist"], "wake_up", h, b)
     ELSE _ion_buffer_destroy(s, b)

\* a release that tears the buffer down itself on every heap
ion_buffer_destroy_sync(s, b) ==
  _ion_buffer_destroy([s EXCEPT !.dev_buffers = @ \ {b}], b)

ion_buffer_destroy(s, b) ==
  LET h == s.buffers[b].heap
      s1 == [s EXCEPT !.dev_buffers = @ \ {b}]
  IN IF DeferFree(h)
     THEN Call([s1 EXCEPT !.free_list[h] = <<b>> \o @,
                          !.buffers[b].st = "freelist"], "wake_up", h, b)
     ELSE _ion_buffer_destroy(s1, b)

ion_buffer_get(s, b) == [s EXCEPT !.buffers[b].ref = @ + 1]

ion_buffer_put(s, b) ==
  LET s1 == [s EXCEPT !.buffers[b].ref = @ - 1]
  IN IF s1.buffers[b].ref = 0 THEN ion_buffer_destroy(s1, b) ELSE s1

\* What one call of ion_buffer_create meets in its collaborators: kz, the
\* kzalloc of the buffer record; a1, a2, the heap's first and second allocate;
\* md, the heap's map_dma; vm, the vmalloc of the page array.
Errnos == {"ENOMEM", "EOTHER"}
Scripts ==
  [kz : BOOLEAN, a1 : {"OK"} \cup Errnos, a2 : {"OK"} \cup Errnos,
   md : {"OK", "NULL"} \cup Errnos, vm : BOOLEAN]
OkScript == [kz |-> TRUE, a1 |-> "OK", a2 |-> "OK", md |-> "OK", vm |-> TRUE]

Failed(s, e) == [s EXCEPT !.res = [buf |-> 0, err |-> e]]

\* after the heap's allocate succeeded (ion.c 242-291)
BufferMapAndIndex(s, heap, len, flags, sc, nb) ==
  LET s1 == CallR(s, "map_dma", heap, nb, sc.md)
  IN IF sc.md # "OK"
     THEN Failed(Call(s1, "free", heap, nb), sc.md)
     ELSE IF ion_buffer_fault_user_mappings(flags) /\ ~sc.vm
     THEN Failed(CallR(s1, "vmalloc", heap, nb, "ENOMEM"), "ENOMEM")
     ELSE [s1 EXCEPT
             !.buffers[nb] = [st |-> "live", heap |-> heap, size |-> len,
                              flags |-> flags, ref |-> 1, handle_count |-> 0,
                              kmap_cnt |-> 0, vaddr |-> NULL,
                              pages |-> ion_buffer_fault_user_mappings(flags),
                              torn |-> 0],
             !.dev_buffers = @ \cup {nb},
             !.res = [buf |-> nb, err |-> ""]]

ion_buffer_create(s, heap, len, flags, sc) ==
  LET nb == FreshIn(s.buffers, BufIds)
      s1 == CallR(s, "allocate", heap, nb, sc.a1)
  IN IF ~sc.kz THEN Failed(CallR(s, "kzalloc", heap, nb, "ENOMEM"), "ENOMEM")
     ELSE IF sc.a1 = "OK" THEN BufferMapAndIndex(s1, heap, len, flags, sc, nb)
     ELSE IF ~DeferFree(heap) THEN Failed(s1, sc.a1)
     ELSE LET s2 == CallR(ion_heap_drain_freelist(s1, heap), "allocate", heap, nb,
                          sc.a2)
          IN IF sc.a2 = "OK" THEN BufferMapAndIndex(s2, heap, len, flags, sc, nb)
             ELSE Failed(s2, sc.a2)

\* ---------------------------------------------------------- handle lifecycle
ion_buffer_add_to_handle(s, b) == [s EXCEPT !.buffers[b].handle_count = @ + 1]

\* a handle that goes away without being taken off the count
ion_buffer_remove_from_handle_nop(s, b) == s

ion_buffer_remove_from_handle(s, b) ==
  IF s.buffers[b].handle_count > 0
  THEN [s EXCEPT !.buffers[b].handle_count = @ - 1]
  ELSE s

\* a handle that takes no reference on the buffer it wraps
ion_handle_create_unref(s, c, b, kz) ==
  LET nh == FreshIn(s.handles, HandleIds)
  IN IF ~kz THEN Failed(CallR(s, "kzalloc", 0, nh, "ENOMEM"), "ENOMEM")
     ELSE LET s1 == ion_buffer_add_to_handle(s, b)
          IN [s1 EXCEPT !.handles[nh] = [st |-> "live", client |-> c, buffer |-> b,
                                         ref |-> 1, kmap_cnt |-> 0],
                        !.res = [buf |-> nh, err |-> ""]]

\* kz: the kzalloc of the handle record
ion_handle_create(s, c, b, kz) ==
  LET nh == FreshIn(s.handles, HandleIds)
  IN IF ~kz THEN Failed(CallR(s, "kzalloc", 0, nh, "ENOMEM"), "ENOMEM")
     ELSE LET s1 == ion_buffer_add_to_handle(ion_buffer_get(s, b), b)
          IN [s1 EXCEPT !.handles[nh] = [st |-> "live", client |-> c, buffer |-> b,
                                         ref |-> 1, kmap_cnt |-> 0],
                        !.res = [buf |-> nh, err |-> ""]]

\* an unmap that keeps the address it had cached
ion_buffer_kmap_put_stale(s, b) ==
  LET s1 == [s EXCEPT !.buffers[b].kmap_cnt = @ - 1]
  IN IF s1.buffers[b].kmap_cnt = 0
     THEN Call(s1, "unmap_kernel", s.buffers[b].heap, b)
     ELSE s1

ion_buffer_kmap_put(s, b) ==
  LET s1 == [s EXCEPT !.buffers[b].kmap_cnt = @ - 1]
  IN IF s1.buffers[b].kmap_cnt = 0
     THEN [Call(s1, "unmap_kernel", s.buffers[b].heap, b) EXCEPT
             !.buffers[b].vaddr = NULL]
     ELSE s1

\* a handle that passes every unmap on to its buffer
ion_handle_kmap_put_eager(s, h) ==
  ion_buffer_kmap_put([s EXCEPT !.handles[h].kmap_cnt = (@ - 1) % Word],
                      s.handles[h].buffer)

\* handle->kmap_cnt is an unsigned int
ion_handle_kmap_put(s, h) ==
  LET s1 == [s EXCEPT !.handles[h].kmap_cnt = (@ - 1) % Word]
  IN IF s1.handles[h].kmap_cnt = 0
     THEN ion_buffer_kmap_put(s1, s.handles[h].buffer)
     ELSE s1

\* "while (handle->kmap_cnt) ion_handle_kmap_put(handle)": only the last
\* round, the one that reaches zero, goes on to the buffer
DropHandleKmaps(s, h) ==
  IF s.handles[h].kmap_cnt = 0 THEN s
  ELSE ion_handle_kmap_put([s EXCEPT !.handles[h].kmap_cnt = 1], h)

ion_handle_destroy(s, h) ==
  LET hd == s.handles[h]
      s1 == DropHandleKmaps(s, h)
      s2 == [s1 EXCEPT !.chandles[hd.client] = @ \ {h}]
      s3 == ion_buffer_remove_from_handle(s2, hd.buffer)
      s4 == ion_buffer_put(s3, hd.buffer)
  IN [s4 EXCEPT !.handles[h] = FreedHandle(hd.client)]

ion_handle_get(s, h) == [s EXCEPT !.handles[h].ref = @ + 1]

ion_handle_put(s, h) ==
  LET s1 == [s EXCEPT !.handles[h].ref = @ - 1]
  IN IF s1.handles[h].ref = 0 THEN ion_handle_destroy(s1, h) ELSE s1

\* the first handle of the client's tree that wraps the buffer, or NULL
ion_handle_lookup(s, c, b) ==
  LET hs == {h \in s.chandles[c] : s.handles[h].buffer = b}
  IN IF hs = {} THEN NULL ELSE CHOOSE h \in hs : \A g \in hs : h <= g

ion_handle_validate(s, c, h) == h \in s.chandles[c]

\* an insertion that is lost
ion_handle_add_nop(s, c, h) == s

ion_handle_add(s, c, h) == [s EXCEPT !.chandles[c] = @ \cup {h}]

\* ------------------------------------------------------------ reclaim policy
RECURSIVE SumSizes(_, _)
SumSizes(s, hs) ==
  IF hs = {} THEN 0
  ELSE LET h == CHOOSE x \in hs : TRUE
       IN s.buffers[s.handles[h].buffer].size + SumSizes(s, hs \ {h})

\* the size ion_debug_heap_total returns: what the client's handles hold in heap id
ion_debug_heap_total(s, c, id) ==
  SumSizes(s, {h \in s.chandles[c] : s.buffers[s.handles[h].buffer].heap = id})

NoVictim == [client |-> 0, heap |-> 0, size |-> 0, oom |-> 0, wait |-> FALSE]

\* an inner loop that waits for a marked client however long ago it was marked
ShrinkVisit_patient(s, sel, h, c, min_adj, now) ==
  LET cl == s.clients[c]
      size == ion_debug_heap_total(s, c, h)
  IN IF ~cl.task THEN sel
     ELSE IF cl.deathpending THEN [sel EXCEPT !.wait = TRUE]
     ELSE IF cl.adj < min_adj THEN sel
     ELSE IF size = 0 THEN sel
     ELSE IF sel.client # 0 /\ cl.adj < sel.oom THEN sel
     ELSE IF sel.client # 0 /\ cl.adj = sel.oom /\ size <= sel.size THEN sel
     ELSE [client |-> c, heap |-> h, size |-> size, oom |-> cl.adj, wait |-> FALSE]

\* an inner loop that keeps the first client it finds
ShrinkVisit_first(s, sel, h, c, min_adj, now) ==
  LET cl == s.clients[c]
      size == ion_debug_heap_total(s, c, h)
  IN IF ~cl.task THEN sel
     ELSE IF cl.deathpending
     THEN (IF now <= cl.timeout THEN [sel EXCEPT !.wait = TRUE] ELSE sel)
     ELSE IF cl.adj < min_adj THEN sel
     ELSE IF size = 0 THEN sel
     ELSE IF sel.client # 0 THEN sel
     ELSE [client |-> c, heap |-> h, size |-> size, oom |-> cl.adj, wait |-> FALSE]

\* one round of the inner loop of ion_shrink (ion.c 672-705) for client c, heap h
ShrinkVisit(s, sel, h, c, min_adj, now) ==
  LET cl == s.clients[c]
      size == ion_debug_heap_total(s, c, h)
  IN IF ~cl.task THEN sel
     ELSE IF cl.deathpending
     THEN (IF now <= cl.timeout THEN [sel EXCEPT !.wait = TRUE] ELSE sel)
     ELSE IF cl.adj < min_adj THEN sel
     ELSE IF size = 0 THEN sel
     ELSE IF sel.client # 0 /\ cl.adj < sel.oom THEN sel
     ELSE IF sel.client # 0 /\ cl.adj = sel.oom /\ size <= sel.size THEN sel
     ELSE [client |-> c, heap |-> h, size |-> size, oom |-> cl.adj, wait |-> FALSE]

\* the two nested loops, over the <<heap, client>> pairs in visiting order;
\* "return -1" leaves both loops at once
RECURSIVE ShrinkScan(_, _, _, _, _)
ShrinkScan(s, pairs, sel, min_adj, now) ==
  IF pairs = <<>> THEN sel
  ELSE LET v == ShrinkVisit(s, sel, Head(pairs)[1], Head(pairs)[2], min_adj, now)
       IN IF v.wait THEN v ELSE ShrinkScan(s, Tail(pairs), v, min_adj, now)

RECURSIVE PairsOf(_, _)
PairsOf(hs, cs) ==
  IF hs = <<>> THEN <<>>
  ELSE [i \in 1 .. Len(cs) |-> <<Head(hs), cs[i]>>] \o PairsOf(Tail(hs), cs)

EligibleHeaps(mask) == SelectSeq(HeapOrder(HeapIds), LAMBDA h : h \in mask)

\* ion_shrink: the state after it and, in res.buf, its return value. Its entry
\* in the log of calls holds min_oom_score_adj in the place of the heap, the
\* return value in the place of the object, and "OOM" (fail_size is not 0) or
\* "LMK"; the entry of send_sig holds the selected heap and the selected client
ion_shrink(s, mask, min_adj, fail_size, now) ==
  LET sel == ShrinkScan(s, PairsOf(EligibleHeaps(mask), AddrOrder(s.dev_clients)),
                        NoVictim, min_adj, now)
      s0 == CallR(s, "ion_shrink", min_adj,
                  IF sel.wait THEN -1 ELSE IF sel.client = 0 THEN 0 ELSE sel.size,
                  IF fail_size # 0 THEN "OOM" ELSE "LMK")
  IN IF sel.wait THEN [s0 EXCEPT !.res = [buf |-> -1, err |-> "shrink"]]
     ELSE IF sel.client = 0 THEN [s0 EXCEPT !.res = [buf |-> 0, err |-> "shrink"]]
     ELSE [Call(s0, "send_sig", sel.heap, sel.client) EXCEPT
             !.oom_kill_count = IF fail_size # 0 THEN @ + 1 ELSE @,
             !.clients[sel.client].deathpending = TRUE,
             !.clients[sel.client].killed = TRUE,
             !.clients[sel.client].timeout = now + ION_OOM_TIMEOUT_JIFFIES,
             !.res = [buf |-> sel.size, err |-> "shrink"]]

\* ------------------------------------------------------------------ ion_alloc
\* the scripts that differ in what ion_buffer_create does with them
CanonScripts(heap, flags, scripts) ==
  {sc \in scripts :
     /\ ~sc.kz => sc.a1 = "OK"
     /\ (sc.a1 = "OK" \/ ~DeferFree(heap)) => sc.a2 = "OK"
     /\ (DeferFree(heap) /\ sc.a1 # "OK") => sc.a1 = "ENOMEM"
     /\ (~sc.kz \/ (sc.a1 # "OK" /\ (~DeferFree(heap) \/ sc.a2 # "OK")))
          => sc.md = "OK"
     /\ (sc.md # "OK" \/ ~ion_buffer_fault_user_mappings(flags)) => sc.vm}

\* a walk that skips no heap
Eligible_any(h, mask) == TRUE

\* "if (!((1 << heap->id) & heap_id_mask)) continue;"
Eligible(h, mask) == h \in mask

\* plist_for_each_entry over dev->heaps (ion.c 782-795): every state the walk
\* can end in, res holding the buffer of the last ion_buffer_create
RECURSIVE HeapWalk(_, _, _, _, _, _)
HeapWalk(s, hs, len, mask, flags, scripts) ==
  IF hs = <<>> THEN {s}
  ELSE IF ~Eligible(Head(hs), mask)
  THEN HeapWalk(s, Tail(hs), len, mask, flags, scripts)
  ELSE UNION {LET t == ion_buffer_create(s, Head(hs), len, flags, sc)
              IN IF t.res.err = "" THEN {t}
                 ELSE HeapWalk(t, Tail(hs), len, mask, flags, scripts)
              : sc \in CanonScripts(Head(hs), flags, scripts)}

\* what heap_used->lmk_shrink_info may answer: no callback or no need, or a
\* need with the threshold min_adj
LmkAnswers == {[needed |-> FALSE, min_adj |-> 0], [needed |-> TRUE, min_adj |-> 0],
               [needed |-> TRUE, min_adj |-> 1]}

\* a reclaim scan after every walk that ended without a buffer
AfterWalk_always(t, len, mask, lmk, now) ==
  IF t.res.err # ""
  THEN LET u == ion_shrink(t, mask, 0, len, now)
       IN [u EXCEPT !.retry_flag = (u.res.buf # 0), !.res = t.res]
  ELSE LET h == t.buffers[t.res.buf].heap
           u == [t EXCEPT !.used[h] = @ + t.buffers[t.res.buf].size]
       IN IF lmk.needed
          THEN [ion_shrink(u, {h}, lmk.min_adj, 0, now) EXCEPT !.res = t.res]
          ELSE u

\* ion.c 796-842, on the state t a walk ended in
AfterWalk(t, len, mask, lmk, now) ==
  IF t.res.err = "ENOMEM"
  THEN LET u == ion_shrink(t, mask, 0, len, now)
       IN [u EXCEPT !.retry_flag = (u.res.buf # 0), !.res = t.res]
  ELSE IF t.res.err = ""
  THEN LET h == t.buffers[t.res.buf].heap
           u == [t EXCEPT !.used[h] = @ + t.buffers[t.res.buf].size]
       IN IF lmk.needed
          THEN [ion_shrink(u, {h}, lmk.min_adj, 0, now) EXCEPT !.res = t.res]
          ELSE u
  ELSE t

\* an ion_alloc that keeps the reference ion_buffer_create made
AllocHandle_keep(s, c, kz) ==
  LET s1 == ion_handle_create(s, c, s.res.buf, kz)
  IN IF s1.res.err = "" THEN ion_handle_add(s1, c, s1.res.buf) ELSE s1

\* ion.c 870-885: the handle for the buffer the walk produced
AllocHandle(s, c, kz) ==
  LET b == s.res.buf
      s1 == ion_handle_create(s, c, b, kz)
      s2 == ion_buffer_put(s1, b)
  IN IF s1.res.err = "" THEN ion_handle_add(s2, c, s1.res.buf) ELSE s2

\* ion.c 864-868: what ion_alloc returns for a walk that produced no buffer
AllocError(err) == IF err = "NULL" THEN "ENODEV" ELSE err

\* an ion_alloc without the length check
ZeroLength_unchecked(len) == FALSE

\* "if (WARN_ON(!len)) return ERR_PTR(-EINVAL);"
ZeroLength(len) == len = 0

NoPending == [len |-> 0, rlen |-> 0, mask |-> {}, flags |-> {}]


Lens == {0, 1, PAGE_SIZE + 1, Word - 1}
Masks == {{}, {2}, {0}, {1, 2}, {0, 1}}
FlagSets == {{}, {"CACHED"}}

\* The inputs a specification draws for ion_alloc: the requests (lens, masks,
\* flags) and what the collaborators answer (scripts, lmk, and hkz, the
\* kzalloc of the handle record).
\* (full: Allocate is called when the addresses of the model are used up as
\* well, and kzalloc fails then; otherwise it is not called then)
AllInputs == [lens |-> Lens, masks |-> Masks, flags |-> FlagSets, scripts |-> Scripts,
              lmk |-> LmkAnswers, hkz |-> BOOLEAN, full |-> FALSE]
\* plain requests to heaps that are not short of memory
PlainInputs == [lens |-> {1}, masks |-> {{0}, {1}}, flags |-> {{}},
                scripts |-> {sc \in Scripts : /\ sc.kz /\ sc.vm
                                              /\ "ENOMEM" \notin {sc.a1, sc.a2, sc.md}},
                lmk |-> {[needed |-> FALSE, min_adj |-> 0]}, hkz |-> BOOLEAN,
                full |-> FALSE]

\* kzalloc has an address left for a buffer and for a handle
CanAllocate ==
  /\ FreshIn(buffers, BufIds) # 0
  /\ FreshIn(handles, HandleIds) # 0

\* one pass of ion_alloc from "retry:" on, for the request rq of client c
AllocPass(c, rq, D) ==
  \E t \in HeapWalk(St, HeapOrder(HeapIds), rq.len, rq.mask, rq.flags,
                    IF CanAllocate THEN D.scripts
                    ELSE {sc \in Scripts : ~sc.kz}) :
    \E lmk \in (IF t.res.err = "" THEN D.lmk ELSE {[needed |-> FALSE, min_adj |-> 0]}) :
      LET u == AfterWalk(t, rq.len, rq.mask, lmk, jiffies)
      IN IF u.res.err # ""
         THEN \E fatal \in {TRUE} \cup (IF u.clients[c].killed THEN {} ELSE {FALSE}) :
                IF ~fatal /\ u.retry_flag
                THEN /\ Commit(u)
                     /\ pending' = [pending EXCEPT ![c] = rq]
                     /\ last' = [op |-> "alloc_sleep", client |-> c, handle |-> 0,
                                 fd |-> 0, len |-> rq.rlen, mask |-> rq.mask, ret |-> "SLEEP",
                                 val |-> 0]
                ELSE /\ Commit(u)
                     /\ pending' = [pending EXCEPT ![c] = NoPending]
                     /\ last' = [op |-> "alloc", client |-> c, handle |-> 0,
                                 fd |-> 0, len |-> rq.rlen, mask |-> rq.mask,
                                 ret |-> AllocError(u.res.err), val |-> 0]
         ELSE \E kz \in D.hkz :
                LET v == AllocHandle(u, c, kz)
                IN /\ Commit(v)
                   /\ pending' = [pending EXCEPT ![c] = NoPending]
                   /\ last' = [op |-> "alloc", client |-> c, handle |-> 0,
                               fd |-> 0, len |-> rq.rlen, mask |-> rq.mask,
                               ret |-> IF v.res.err = "" THEN "OK" ELSE v.res.err,
                               val |-> v.res.buf]

\* no operation is between its call and its return, and no lock is held (an
\* action that runs a whole operation takes and releases its locks within the
\* step)
Idle ==
  /\ last.op = "idle"
  /\ \A c \in ClientIds : client_lock[c] = NULL
  /\ \A h \in HeapIds : heap_lock[h] = NULL

Result(op, c, h, r, v) ==
  [NoLast EXCEPT !.op = op, !.client = c, !.handle = h, !.ret = r, !.val = v]

\* an operation that returns without touching the kernel objects
Rejected(op, c, h, r) ==
  /\ Idle
  /\ Commit(St)
  /\ last' = Result(op, c, h, r, 0)
  /\ UNCHANGED <<jiffies, pending>>
  /\ UNCHANGED Threading

Done(s, op, c, h, r, v) ==
  /\ Idle
  /\ Commit(s)
  /\ last' = Result(op, c, h, r, v)
  /\ UNCHANGED <<jiffies, pending>>
  /\ UNCHANGED Threading

Imported(s, c, fd, r, v) ==
  /\ Idle
  /\ Commit(s)
  /\ last' = [Result("import", c, 0, r, v) EXCEPT !.fd = fd]
  /\ UNCHANGED <<jiffies, pending>>
  /\ UNCHANGED Threading

\* a pointer to a handle that is not (or no longer) allocated
Dangling(h) == handles[h].st # "live"

\* ------------------------------------------------------------------- actions
Init ==
  /\ buffers = [b \in BufIds |-> NoBuffer]
  /\ dev_buffers = {}
  /\ handles = [h \in HandleIds |-> NoHandle]
  /\ chandles = [c \in ClientIds |-> {}]
  /\ clients = [c \in ClientIds |-> NoClient]
  /\ dev_clients = {}
  /\ dmabufs = [d \in DmaIds |-> NoDmabuf]
  /\ free_list = [h \in HeapIds |-> <<>>]
  /\ used = [h \in HeapIds |-> 0]
  /\ oom_kill_count = 0
  /\ jiffies = 0
  /\ pending = [c \in ClientIds |-> NoPending]
  /\ calls = <<>>
  /\ last = NoLast
  /\ pc = [t \in Threads |-> NoPc]
  /\ worker = [h \in HeapIds |-> NoWork]
  /\ client_lock = [c \in ClientIds |-> NULL]
  /\ heap_lock = [h \in HeapIds |-> NULL]

\* who creates a client: a kernel thread (PF_KTHREAD, so task = NULL) or a
\* process, whose oom_score_adj is adj
KernelThread == [task |-> FALSE, adj |-> 0]
Process(adj) == [task |-> TRUE, adj |-> adj]

ion_client_create(c, kinds) ==
  /\ clients[c].st = "none"
  /\ \A d \in ClientIds : d < c => clients[d].st # "none"
  /\ \E k \in kinds :
       Done([St EXCEPT !.clients[c] = [st |-> "open", task |-> k.task, adj |-> k.adj,
                                       deathpending |-> FALSE, timeout |-> 0,
                                       killed |-> FALSE],
                       !.dev_clients = @ \cup {c}],
            "client_create", c, 0, "OK", c)

\* ion_alloc up to its first pass over the heaps
Alloc(c, D) ==
  /\ Idle
  /\ clients[c].st = "open"
  /\ pending[c] = NoPending
  /\ CanAllocate \/ D.full
  /\ jiffies' = jiffies
  /\ UNCHANGED Threading
  /\ \E len \in D.lens, mask \in D.masks, flags \in D.flags :
       IF ZeroLength(len)
       THEN /\ Commit(St)
            /\ pending' = pending
            /\ last' = [op |-> "alloc", client |-> c, handle |-> 0, fd |-> 0, len |-> len,
                        mask |-> mask, ret |-> "EINVAL", val |-> 0]
       ELSE AllocPass(c, [len |-> PAGE_ALIGN(len), rlen |-> len, mask |-> mask,
                          flags |-> flags], D)

\* ion_alloc waking from msleep and going to "retry:"
AllocRetry(c, D) ==
  /\ Idle
  /\ pending[c] # NoPending
  /\ CanAllocate \/ D.full
  /\ jiffies' = jiffies
  /\ UNCHANGED Threading
  /\ AllocPass(c, pending[c], D)

ion_free(c, h) ==
  /\ clients[c].st = "open"
  /\ IF Dangling(h)
     THEN \E r \in {"EINVAL", "BUG"} : Rejected("free", c, h, r)
     ELSE IF handles[h].client # c THEN Rejected("free", c, h, "BUG")
     ELSE IF ~ion_handle_validate(St, c, h) THEN Rejected("free", c, h, "EINVAL")
     ELSE Done(ion_handle_put(St, h), "free", c, h, "OK", 0)

ion_phys(c, h) ==
  /\ clients[c].st = "open"
  /\ IF ~ion_handle_validate(St, c, h) THEN Rejected("phys", c, h, "EINVAL")
     ELSE LET b == handles[h].buffer
          IN IF ~HasPhys(buffers[b].heap) THEN Rejected("phys", c, h, "ENODEV")
             ELSE Done(Call(St, "phys", buffers[b].heap, b), "phys", c, h, "OK", b)

ion_sg_table(c, h) ==
  /\ clients[c].st = "open"
  /\ IF ~ion_handle_validate(St, c, h) THEN Rejected("sg_table", c, h, "EINVAL")
     ELSE Done(St, "sg_table", c, h, "OK", handles[h].buffer)

\* the addresses a heap's map_kernel can return
Addrs == {1, 2}
MapKernelAnswers == [r : {"OK"}, vaddr : Addrs] \cup
                    [r : {"NULL", "ENOMEM"}, vaddr : {NULL}]

\* an ion_buffer_kmap_get that asks the heap for a mapping every time
ion_buffer_kmap_get_remap(s, b, ans) ==
  LET s1 == CallR(s, "map_kernel", s.buffers[b].heap, b, ans.r)
  IN IF ans.r # "OK" THEN [s1 EXCEPT !.res = [buf |-> NULL, err |-> ans.r]]
     ELSE [s1 EXCEPT !.buffers[b].vaddr = ans.vaddr,
                     !.buffers[b].kmap_cnt = @ + 1,
                     !.res = [buf |-> ans.vaddr, err |-> ""]]

\* ion_buffer_kmap_get; res.err is "" when it returns a valid address and
\* res.buf is the address
ion_buffer_kmap_get(s, b, ans) ==
  IF s.buffers[b].kmap_cnt # 0
  THEN [s EXCEPT !.buffers[b].kmap_cnt = @ + 1,
                 !.res = [buf |-> s.buffers[b].vaddr, err |-> ""]]
  ELSE LET s1 == CallR(s, "map_kernel", s.buffers[b].heap, b, ans.r)
       IN IF ans.r # "OK" THEN [s1 EXCEPT !.res = [buf |-> NULL, err |-> ans.r]]
          ELSE [s1 EXCEPT !.buffers[b].vaddr = ans.vaddr,
                          !.buffers[b].kmap_cnt = @ + 1,
                          !.res = [buf |-> ans.vaddr, err |-> ""]]

ion_handle_kmap_get(s, h, ans) ==
  LET b == s.handles[h].buffer
  IN IF s.handles[h].kmap_cnt # 0
     THEN [s EXCEPT !.handles[h].kmap_cnt = (@ + 1) % Word,
                    !.res = [buf |-> s.buffers[b].vaddr, err |-> ""]]
     ELSE LET s1 == ion_buffer_kmap_get(s, b, ans)
          IN IF s1.res.err # "" THEN s1
             ELSE [s1 EXCEPT !.handles[h].kmap_cnt = (@ + 1) % Word]

\* the map_kernel answers that differ in what the call does with them
KmapAnswers(h) ==
  IF handles[h].kmap_cnt # 0 \/ buffers[handles[h].buffer].kmap_cnt # 0
  THEN {[r |-> "OK", vaddr |-> 1]}
  ELSE MapKernelAnswers

ion_map_kernel(c, h) ==
  /\ clients[c].st = "open"
  /\ handles[h].kmap_cnt < MaxKmap \/ handles[h].kmap_cnt = Word - 1
  /\ IF ~ion_handle_validate(St, c, h) THEN Rejected("map_kernel", c, h, "EINVAL")
     ELSE IF ~HasMapKernel(buffers[handles[h].buffer].heap)
     THEN Rejected("map_kernel", c, h, "ENODEV")
     ELSE \E ans \in KmapAnswers(h) :
            LET s == ion_handle_kmap_get(St, h, ans)
            IN Done(s, "map_kernel", c, h,
                    IF s.res.err = "" THEN "OK" ELSE s.res.err, s.res.buf)

\* ion_unmap_kernel reads handle->buffer without validating the handle: on a
\* dangling pointer it either runs on the stale memory or faults
ion_unmap_kernel(c, h) ==
  /\ clients[c].st = "open"
  /\ handles[h].kmap_cnt <= MaxKmap
  /\ IF Dangling(h)
     THEN \E r \in {"OK", "OOPS"} : Rejected("unmap_kernel", c, h, r)
     ELSE Done(ion_handle_kmap_put(St, h), "unmap_kernel", c, h, "OK", 0)

\* a Share that keeps the buffer reference when no descriptor is to be had
ion_share_dma_buf_fd_leaky(c, h) ==
  /\ clients[c].st = "open"
  /\ FreshIn(dmabufs, DmaIds) # 0
  /\ IF ~ion_handle_validate(St, c, h) THEN Rejected("share", c, h, "EINVAL")
     ELSE \E fd \in BOOLEAN :
            LET b == handles[h].buffer
                d == FreshIn(dmabufs, DmaIds)
                s1 == ion_buffer_get(St, b)
            IN Done([s1 EXCEPT !.dmabufs[d] =
                       [st |-> IF fd THEN "open" ELSE "released", buffer |-> b]],
                    "share", c, h, IF fd THEN "OK" ELSE "EMFILE", IF fd THEN d ELSE 0)

\* ion_share_dma_buf_fd: exp is what dma_buf_export does, fd what dma_buf_fd does
ion_share_dma_buf_fd(c, h) ==
  /\ clients[c].st = "open"
  /\ FreshIn(dmabufs, DmaIds) # 0
  /\ IF ~ion_handle_validate(St, c, h) THEN Rejected("share", c, h, "EINVAL")
     ELSE \E exp \in BOOLEAN, fd \in BOOLEAN :
            /\ (~exp => fd)
            /\ LET b == handles[h].buffer
                   d == FreshIn(dmabufs, DmaIds)
                   s1 == ion_buffer_get(St, b)
               IN IF ~exp THEN Done(ion_buffer_put(s1, b), "share", c, h, "ENOMEM", 0)
                  ELSE IF ~fd
                  THEN Done(ion_buffer_put([s1 EXCEPT !.dmabufs[d] =
                                              [st |-> "released", buffer |-> b]], b),
                            "share", c, h, "EMFILE", 0)
                  ELSE Done([s1 EXCEPT !.dmabufs[d] = [st |-> "open", buffer |-> b]],
                            "share", c, h, "OK", d)

\* a descriptor of a dma_buf some other exporter made
ForeignFd == MaxDmabufs + 1

\* ion_import_dma_buf: fd is an ion export object, a foreign one, or no
\* dma_buf at all; kz is the kzalloc of a new handle record. The reference
\* dma_buf_get takes on the object of fd is given back by dma_buf_put.
ion_import_dma_buf(c, fd) ==
  /\ clients[c].st = "open"
  /\ LET got == Call(St, "dma_buf_get", 0, fd)
         put(s) == Call(s, "dma_buf_put", 0, fd)
     IN IF ~clients[c].task THEN Imported(St, c, fd, "OOPS", 0)
        ELSE IF fd = ForeignFd THEN Imported(put(got), c, fd, "EINVAL", 0)
        ELSE IF dmabufs[fd].st # "open"
        THEN Imported(CallR(St, "dma_buf_get", 0, fd, "EBADF"), c, fd, "EBADF", 0)
        ELSE LET b == dmabufs[fd].buffer
                 h == ion_handle_lookup(St, c, b)
             IN IF h # NULL
                THEN /\ handles[h].ref < MaxRef
                     /\ Imported(put(ion_handle_get(got, h)), c, fd, "OK", h)
                ELSE /\ FreshIn(handles, HandleIds) # 0
                     /\ \E kz \in BOOLEAN :
                          LET s1 == ion_handle_create(got, c, b, kz)
                          IN IF s1.res.err # ""
                             THEN Imported(put(s1), c, fd, s1.res.err, 0)
                             ELSE Imported(put(ion_handle_add(s1, c, s1.res.buf)), c, fd,
                                           "OK", s1.res.buf)

\* the last reference to the export object goes: ion_dma_buf_release
ion_dma_buf_release(d) ==
  /\ dmabufs[d].st = "open"
  /\ Done(ion_buffer_put([St EXCEPT !.dmabufs[d].st = "released"], dmabufs[d].buffer),
          "release", 0, 0, "OK", d)

\* the map_kernel answers that differ in what ion_buffer_kmap_get does with them
BufferKmapAnswers(b) ==
  IF buffers[b].kmap_cnt # 0 THEN {[r |-> "OK", vaddr |-> 1]} ELSE MapKernelAnswers

\* an importer of the export object starts a CPU access
ion_dma_buf_begin_cpu_access(d) ==
  /\ dmabufs[d].st = "open"
  /\ buffers[dmabufs[d].buffer].kmap_cnt < MaxKmap
  /\ LET b == dmabufs[d].buffer
     IN IF ~HasMapKernel(buffers[b].heap)
        THEN Done(St, "begin_cpu_access", 0, 0, "ENODEV", d)
        ELSE \E ans \in BufferKmapAnswers(b) :
               LET s == ion_buffer_kmap_get(St, b, ans)
               IN Done(s, "begin_cpu_access", 0, 0,
                       IF s.res.err = "" THEN "OK"
                       ELSE IF s.res.err = "NULL" THEN "ENOMEM" ELSE s.res.err, d)

\* and ends one; buffer->kmap_cnt is an int, and nothing stops an end that
\* no begin preceded
ion_dma_buf_end_cpu_access(d) ==
  /\ dmabufs[d].st = "open"
  /\ buffers[dmabufs[d].buffer].kmap_cnt > -MaxKmap
  /\ Done(ion_buffer_kmap_put(St, dmabufs[d].buffer), "end_cpu_access", 0, 0, "OK", d)

\* "while ((n = rb_first(&client->handles))) ion_handle_put(handle)"
RECURSIVE PutAllHandles(_, _)
PutAllHandles(s, c) ==
  IF s.chandles[c] = {} THEN s
  ELSE PutAllHandles(ion_handle_put(s, CHOOSE h \in s.chandles[c] :
                                          \A g \in s.chandles[c] : h <= g), c)

\* a teardown that puts each handle of the set once
RECURSIVE PutEachOnce(_, _)
PutEachOnce(s, hs) ==
  IF hs = {} THEN s
  ELSE LET h == CHOOSE x \in hs : \A g \in hs : x <= g
       IN PutEachOnce(ion_handle_put(s, h), hs \ {h})

_ion_client_destroy_once(s, c) ==
  LET s1 == PutEachOnce([s EXCEPT !.dev_clients = @ \ {c}], s.chandles[c])
  IN [s1 EXCEPT !.clients[c] = FreedClient]

_ion_client_destroy(s, c) ==
  LET s1 == PutAllHandles([s EXCEPT !.dev_clients = @ \ {c}], c)
  IN [s1 EXCEPT !.clients[c] = FreedClient]

\* ion_client_destroy dropping the last reference to the client
ion_client_destroy(c) ==
  /\ clients[c].st = "open"
  /\ pending[c] = NoPending
  /\ Done(_ion_client_destroy(St, c), "client_destroy", c, 0, "OK", 0)

\* one round of the loop of ion_heap_deferred_free on a non-empty list
ion_heap_deferred_free(h) ==
  /\ DeferFree(h)
  /\ free_list[h] # <<>>
  /\ Done(_ion_buffer_destroy([St EXCEPT !.free_list[h] = Tail(@)],
                              Head(free_list[h])),
          "worker", 0, 0, "OK", Head(free_list[h]))

\* the clock, while it matters: some client's grace period is running
Tick ==
  /\ Idle
  /\ jiffies < MaxClients * MaxTime
  /\ \E c \in ClientIds : /\ clients[c].st = "open" /\ clients[c].deathpending
                          /\ jiffies <= clients[c].timeout
  /\ jiffies' = jiffies + 1
  /\ UNCHANGED Threading
  /\ UNCHANGED <<buffers, dev_buffers, handles, chandles, clients, dev_clients,
                 dmabufs, free_list, used, oom_kill_count, pending, calls, last>>

\* the operation returns to its caller
Return ==
  /\ ~Idle
  /\ last' = NoLast
  /\ calls' = <<>>
  /\ UNCHANGED Threading
  /\ UNCHANGED <<buffers, dev_buffers, handles, chandles, clients, dev_clients,
                 dmabufs, free_list, used, oom_kill_count, jiffies, pending>>

\* ------------------------------------------------ operations, step by step
\* The same operations as sequences of steps of a thread, one step per
\* critical section or lock operation, for the claims about interleavings.

\* mutex_lock(&client->lock) and rt_mutex_lock(&heap->lock) return when no
\* thread owns the lock
\* a lock that excludes nobody
mutex_lock_nop(c) == TRUE

mutex_lock(c) == client_lock[c] = NULL

\* a free-list lock that excludes nobody
rt_mutex_lock_nop(h) == TRUE

rt_mutex_lock(h) == heap_lock[h] = NULL

\* the kthread of a heap, as an owner of locks
WorkerId == MaxThreads + 1

\* a wake_up that reaches nobody
wake_up_lost(w) == w

\* wake_up(&heap->waitqueue) on the worker w: a worker that has queued itself
\* (prepare_to_wait) becomes runnable, any other is not affected
wake_up(w) ==
  IF w.at \in {"recheck", "schedule"} THEN [w EXCEPT !.woken = TRUE] ELSE w

\* a step of thread t: the kernel objects become s and t goes on at p
Step(t, s, p) ==
  /\ last.op = "idle"
  /\ Commit([s EXCEPT !.calls = <<>>])
  /\ pc' = [pc EXCEPT ![t] = p]
  /\ UNCHANGED <<jiffies, pending, last>>

\* ion_import_dma_buf up to mutex_lock: get_task_comm, dma_buf_get, the
\* check of dmabuf->ops
ImportCall(t, c, fd) ==
  /\ pc[t].at = "idle"
  /\ clients[c].st = "open"
  /\ LET fails(r) == [NoPc EXCEPT !.at = "done", !.client = c, !.ret = r]
     IN Step(t, St,
             IF ~clients[c].task THEN fails("OOPS")
             ELSE IF fd = ForeignFd THEN fails("EINVAL")
             ELSE IF dmabufs[fd].st # "open" THEN fails("EBADF")
             ELSE [NoPc EXCEPT !.at = "import_lock", !.client = c,
                               !.buf = dmabufs[fd].buffer])
  /\ UNCHANGED <<worker, client_lock, heap_lock>>

ImportLock(t) ==
  /\ pc[t].at = "import_lock"
  /\ mutex_lock(pc[t].client)
  /\ client_lock' = [client_lock EXCEPT ![pc[t].client] = t]
  /\ Step(t, St, [pc[t] EXCEPT !.at = "import_lookup"])
  /\ UNCHANGED <<worker, heap_lock>>

\* "handle = ion_handle_lookup(client, buffer);"
ImportLookup(t) ==
  /\ pc[t].at = "import_lookup"
  /\ Step(t, St, [pc[t] EXCEPT !.at = "import_take",
                               !.handle = ion_handle_lookup(St, pc[t].client, pc[t].buf)])
  /\ UNCHANGED <<worker, client_lock, heap_lock>>

\* ion_handle_get on the handle found, or ion_handle_create and ion_handle_add
ImportTake(t) ==
  /\ pc[t].at = "import_take"
  /\ LET c == pc[t].client
         b == pc[t].buf
         h == pc[t].handle
         out(r) == [pc[t] EXCEPT !.at = "import_unlock", !.ret = r]
     IN IF h # NULL
        THEN Step(t, ion_handle_get(St, h), [out("OK") EXCEPT !.got = TRUE])
        ELSE \E kz \in BOOLEAN :
               LET s1 == ion_handle_create(St, c, b, kz /\ FreshIn(handles, HandleIds) # 0)
               IN IF s1.res.err # "" THEN Step(t, s1, out(s1.res.err))
                  ELSE Step(t, ion_handle_add(s1, c, s1.res.buf),
                            [out("OK") EXCEPT !.got = TRUE, !.handle = s1.res.buf])
  /\ UNCHANGED <<worker, client_lock, heap_lock>>

\* "end: mutex_unlock(&client->lock); dma_buf_put(dmabuf); return handle;"
ImportUnlock(t) ==
  /\ pc[t].at = "import_unlock"
  /\ client_lock' = [client_lock EXCEPT ![pc[t].client] = NULL]
  /\ Step(t, St, [pc[t] EXCEPT !.at = IF pc[t].ret = "OK" THEN "holding" ELSE "done"])
  /\ UNCHANGED <<worker, heap_lock>>

\* ion_free up to mutex_lock, by the thread that holds the handle its Import
\* returned: "BUG_ON(client != handle->client);"
FreeHeld(t) ==
  /\ pc[t].at = "holding"
  /\ Step(t, St, IF handles[pc[t].handle].st = "live"
                 THEN [pc[t] EXCEPT !.at = "free_lock"]
                 ELSE [pc[t] EXCEPT !.at = "done", !.ret = "BUG"])
  /\ UNCHANGED <<worker, client_lock, heap_lock>>

\* ion_free up to mutex_lock, on a handle of the client
FreeCall(t, c, h) ==
  /\ pc[t].at = "idle"
  /\ clients[c].st = "open"
  /\ handles[h].st = "live" /\ handles[h].client = c
  /\ Step(t, St, [NoPc EXCEPT !.at = "free_lock", !.client = c, !.handle = h,
                              !.buf = handles[h].buffer])
  /\ UNCHANGED <<worker, client_lock, heap_lock>>

FreeLock(t) ==
  /\ pc[t].at = "free_lock"
  /\ mutex_lock(pc[t].client)
  /\ client_lock' = [client_lock EXCEPT ![pc[t].client] = t]
  /\ Step(t, St, [pc[t] EXCEPT !.at = "free_body"])
  /\ UNCHANGED <<worker, heap_lock>>

\* ion_handle_validate and ion_handle_put; a release that puts the buffer on
\* a free-list (rt_mutex_lock, list_add, rt_mutex_unlock) leaves the wake_up
\* to the next step
FreeBody(t) ==
  /\ pc[t].at = "free_body"
  /\ IF ~ion_handle_validate(St, pc[t].client, pc[t].handle)
     THEN Step(t, St, [pc[t] EXCEPT !.at = "free_unlock", !.ret = "EINVAL"])
     ELSE LET s == ion_handle_put(St, pc[t].handle)
              woke == {s.calls[i].heap : i \in {j \in 1..Len(s.calls) :
                                                  s.calls[j].op = "wake_up"}}
          IN /\ \A g \in woke : rt_mutex_lock(g)
             /\ Step(t, s, [pc[t] EXCEPT !.at = IF woke = {} THEN "free_unlock"
                                                ELSE "free_wake",
                                         !.put = TRUE, !.wake = woke, !.ret = "OK"])
  /\ UNCHANGED <<worker, client_lock, heap_lock>>

\* "wake_up(&heap->waitqueue);" at the end of ion_buffer_destroy
FreeWake(t) ==
  /\ pc[t].at = "free_wake"
  /\ worker' = [h \in HeapIds |-> IF h \in pc[t].wake THEN wake_up(worker[h])
                                  ELSE worker[h]]
  /\ Step(t, St, [pc[t] EXCEPT !.at = "free_unlock", !.wake = {}])
  /\ UNCHANGED <<client_lock, heap_lock>>

FreeUnlock(t) ==
  /\ pc[t].at = "free_unlock"
  /\ client_lock' = [client_lock EXCEPT ![pc[t].client] = NULL]
  /\ Step(t, St, IF pc[t].got THEN [pc[t] EXCEPT !.at = "done"] ELSE NoPc)
  /\ UNCHANGED <<worker, heap_lock>>

\* an ion_alloc on deferred-free heap h whose allocate fails with an error
\* other than -ENOMEM: ion_buffer_create goes to ion_heap_drain_freelist
DrainCall(t, c, h) ==
  /\ pc[t].at = "idle"
  /\ clients[c].st = "open"
  /\ DeferFree(h)
  /\ Step(t, St, [NoPc EXCEPT !.at = "drain_check", !.client = c, !.heap = h])
  /\ UNCHANGED <<worker, client_lock, heap_lock>>

\* "if (ion_heap_free_list_is_empty(heap)) return false;"
DrainCheck(t) ==
  /\ pc[t].at = "drain_check"
  /\ rt_mutex_lock(pc[t].heap)
  /\ Step(t, St, [pc[t] EXCEPT !.at = IF free_list[pc[t].heap] = <<>>
                                      THEN "drain_retry" ELSE "drain_lock"])
  /\ UNCHANGED <<worker, client_lock, heap_lock>>

\* rt_mutex_lock and the first entry of list_for_each_entry_safe
DrainLock(t) ==
  /\ pc[t].at = "drain_lock"
  /\ rt_mutex_lock(pc[t].heap)
  /\ heap_lock' = [heap_lock EXCEPT ![pc[t].heap] = t]
  /\ Step(t, St, [pc[t] EXCEPT !.at = "drain_loop",
                               !.buf = IF free_list[pc[t].heap] = <<>> THEN NULL
                                       ELSE Head(free_list[pc[t].heap])])
  /\ UNCHANGED <<worker, client_lock>>

\* the entry after b on the list l, NULL when there is none
NextEntry(l, b) ==
  LET at == {i \in 1..Len(l) : l[i] = b}
  IN IF at = {} THEN NULL
     ELSE LET i == CHOOSE j \in at : TRUE
          IN IF i = Len(l) THEN NULL ELSE l[i + 1]

\* list_del(b): the list without b
list_del(l, b) == SelectSeq(l, LAMBDA x : x # b)

\* one round of list_for_each_entry_safe (list_del, _ion_buffer_destroy), or
\* after the last one "BUG_ON(!list_empty(&heap->free_list));" and the unlock
DrainLoop(t) ==
  /\ pc[t].at = "drain_loop"
  /\ LET h == pc[t].heap
         b == pc[t].buf
     IN IF b = NULL
        THEN /\ heap_lock' = [heap_lock EXCEPT ![h] = NULL]
             /\ Step(t, St, IF free_list[h] = <<>>
                            THEN [pc[t] EXCEPT !.at = "drain_retry", !.ret = "OK"]
                            ELSE [pc[t] EXCEPT !.at = "done", !.ret = "BUG"])
        ELSE /\ heap_lock' = heap_lock
             /\ Step(t, _ion_buffer_destroy([St EXCEPT !.free_list[h] = list_del(@, b)], b),
                     [pc[t] EXCEPT !.buf = NextEntry(free_list[h], b)])
  /\ UNCHANGED <<worker, client_lock>>

\* the heap's allocate fails again and ion_alloc returns the error
DrainRetry(t) ==
  /\ pc[t].at = "drain_retry"
  /\ Step(t, St, NoPc)
  /\ UNCHANGED <<worker, client_lock, heap_lock>>

\* a step of the kthread of heap h: the kernel objects become s, the worker
\* goes on at w
WorkerStep(h, s, w) ==
  /\ DeferFree(h)
  /\ last.op = "idle"
  /\ Commit([s EXCEPT !.calls = <<>>])
  /\ worker' = [worker EXCEPT ![h] = w]
  /\ UNCHANGED <<jiffies, pending, last, pc, client_lock>>

\* wait_event_freezable: the condition before queueing
WorkerWait(h) ==
  /\ worker[h].at = "wait"
  /\ rt_mutex_lock(h)
  /\ WorkerStep(h, St, [worker[h] EXCEPT !.at = IF free_list[h] = <<>> THEN "prepare"
                                                ELSE "lock"])
  /\ heap_lock' = heap_lock

\* prepare_to_wait: on the wait queue, TASK_INTERRUPTIBLE
WorkerPrepare(h) ==
  /\ worker[h].at = "prepare"
  /\ WorkerStep(h, St, [worker[h] EXCEPT !.at = "recheck", !.woken = FALSE])
  /\ heap_lock' = heap_lock

\* the condition again, queued
WorkerRecheck(h) ==
  /\ worker[h].at = "recheck"
  /\ rt_mutex_lock(h)
  /\ WorkerStep(h, St, IF free_list[h] = <<>> THEN [worker[h] EXCEPT !.at = "schedule"]
                       ELSE [worker[h] EXCEPT !.at = "lock", !.woken = FALSE])
  /\ heap_lock' = heap_lock

\* schedule() returns once the task is runnable
WorkerSchedule(h) ==
  /\ worker[h].at = "schedule"
  /\ worker[h].woken
  /\ WorkerStep(h, St, [worker[h] EXCEPT !.at = "prepare", !.woken = FALSE])
  /\ heap_lock' = heap_lock

WorkerLock(h) ==
  /\ worker[h].at = "lock"
  /\ rt_mutex_lock(h)
  /\ heap_lock' = [heap_lock EXCEPT ![h] = WorkerId]
  /\ WorkerStep(h, St, [worker[h] EXCEPT !.at = "first"])

\* "if (list_empty(...)) { rt_mutex_unlock; continue; }" or list_first_entry
WorkerFirst(h) ==
  /\ worker[h].at = "first"
  /\ IF free_list[h] = <<>>
     THEN /\ heap_lock' = [heap_lock EXCEPT ![h] = NULL]
          /\ WorkerStep(h, St, [worker[h] EXCEPT !.at = "wait"])
     ELSE /\ heap_lock' = heap_lock
          /\ WorkerStep(h, St, [worker[h] EXCEPT !.at = "del", !.buf = Head(free_list[h])])

\* "list_del(&buffer->list); rt_mutex_unlock(&heap->lock);"
WorkerDel(h) ==
  /\ worker[h].at = "del"
  /\ heap_lock' = [heap_lock EXCEPT ![h] = NULL]
  /\ WorkerStep(h, [St EXCEPT !.free_list[h] = list_del(@, worker[h].buf)],
                [worker[h] EXCEPT !.at = "destroy"])

\* "_ion_buffer_destroy(buffer);"
WorkerDestroy(h) ==
  /\ worker[h].at = "destroy"
  /\ heap_lock' = heap_lock
  /\ WorkerStep(h, _ion_buffer_destroy(St, worker[h].buf),
                [worker[h] EXCEPT !.at = "wait", !.buf = NULL])

Worker(h) ==
  \/ WorkerWait(h) \/ WorkerPrepare(h) \/ WorkerRecheck(h) \/ WorkerSchedule(h)
  \/ WorkerLock(h) \/ WorkerFirst(h) \/ WorkerDel(h) \/ WorkerDestroy(h)

\* what a thread does once it has begun an operation
Running(t) ==
  \/ ImportLock(t) \/ ImportLookup(t) \/ ImportTake(t) \/ ImportUnlock(t)
  \/ FreeLock(t) \/ FreeBody(t) \/ FreeWake(t) \/ FreeUnlock(t)
  \/ DrainCheck(t) \/ DrainLock(t) \/ DrainLoop(t) \/ DrainRetry(t)

\* ------------------------------------------------ the locks of an operation
\* Every function as the sequences of lock operations a call of it can make,
\* on the five kinds of lock: "dev" (dev->lock, the rw-semaphore of the heap
\* list and the client tree), "index" (dev->buffer_lock), "client"
\* (client->lock), "buffer" (buffer->lock) and "heap" (heap->lock). A loop is
\* taken no time or once.
Cat(A, B) == {x \o y : x \in A, y \in B}
Opt(A) == A \cup {<<>>}
Under(l, A) ==
  Cat({<<[a |-> "lock", l |-> l]>>}, Cat(A, {<<[a |-> "unlock", l |-> l]>>}))
Section(l) == Under(l, {<<>>})

\* ion_heap_free_list_is_empty, then the drain of a list that is not empty
ion_heap_drain_freelist_locks == Cat(Section("heap"), Opt(Section("heap")))
ion_buffer_create_locks ==
  Cat(Opt(ion_heap_drain_freelist_locks), Opt(Section("index")))
\* the last reference: ion_buffer_destroy takes the buffer off the index and,
\* on a deferred-free heap, puts it on the free list
ion_buffer_put_locks == Opt(Cat(Section("index"), Opt(Section("heap"))))
\* ion_buffer_add_to_handle
ion_handle_create_locks == Opt(Section("buffer"))
\* the last reference: ion_handle_destroy undoes the kernel mappings, then
\* ion_buffer_remove_from_handle, then ion_buffer_put
ion_handle_put_locks ==
  Opt(Cat(Section("buffer"), Cat(Section("buffer"), ion_buffer_put_locks)))

ion_debug_heap_total_locks == Section("client")
\* ion_debug_print_per_heap of a heap named: the total of a client, the
\* buffers of the index, ion_debug_heap_freelist
ion_debug_print_heap_status_locks ==
  Opt(Cat(Opt(ion_debug_heap_total_locks),
          Cat(Under("index", Opt(Section("buffer"))), Opt(Section("heap")))))

\* ion_alloc: the walk and what follows it (ion_shrink, which totals a
\* client, or the report) under dev->lock; the report of the retry path; the
\* handle
ion_alloc_locks ==
  Opt(Cat(Under("dev", Cat(ion_buffer_create_locks,
                           Opt(Opt(ion_debug_heap_total_locks)
                               \cup ion_debug_print_heap_status_locks))),
          Cat(Opt(Under("dev", ion_debug_print_heap_status_locks)),
              Opt(Cat(ion_handle_create_locks,
                      Cat(ion_buffer_put_locks, Opt(Section("client"))))))))

\* ion_free, also behind the lookup of ION_IOC_FREE
ion_free_locks ==
  Cat(Opt(Section("client")), Section("client") \cup Under("client", ion_handle_put_locks))
\* as ion_sg_table, ion_client_foreach_buffer and ion_debug_client_show
ion_phys_locks == Section("client")
ion_map_kernel_inverted_locks == Section("client") \cup Under("buffer", Section("client"))
ion_map_kernel_locks == Section("client") \cup Under("client", Opt(Section("buffer")))
\* an unmap that takes the buffer's lock before the client's
ion_unmap_kernel_inverted_locks == Under("buffer", Section("client"))
ion_unmap_kernel_locks == Under("client", Section("buffer"))
ion_lock_buffer_locks == Section("client") \cup Under("client", Section("buffer"))
ion_share_dma_buf_locks == Cat(Section("client"), Opt(ion_buffer_put_locks))
ion_import_dma_buf_locks == Opt(Under("client", ion_handle_create_locks))
\* release; begin_cpu_access, end_cpu_access, mmap, the vm operations and the
\* sync for a device
ion_dma_buf_ops_locks == ion_buffer_put_locks \cup Section("buffer")

\* as ion_client_get_from_pid, ion_device_add_heap and ion_used_total
ion_client_create_locks == Opt(Section("dev"))
\* _ion_client_destroy gives dev->lock back before it puts the handles
ion_client_put_locks ==
  Cat(Section("dev"), Cat(ion_handle_put_locks, ion_handle_put_locks))
ion_freelist_total_locks == Under("dev", Opt(Section("heap")))
ion_debug_heap_show_locks ==
  Cat(Opt(ion_debug_heap_total_locks), Cat(Section("index"), Opt(Section("heap"))))
ion_heap_deferred_free_locks == Cat(Section("heap"), Section("heap"))

\* a thread enters an operation that takes a lock
LockCall(t, progs) ==
  /\ pc[t].at = "idle"
  /\ \E q \in progs \ {<<>>} :
       Step(t, St, [NoPc EXCEPT !.at = "locking", !.prog = q])
  /\ UNCHANGED <<worker, client_lock, heap_lock>>

\* and makes its next lock operation; the operation returns after its last
LockStep(t) ==
  /\ pc[t].at = "locking"
  /\ LET e == Head(pc[t].prog)
         held == IF e.a = "lock" THEN Append(pc[t].locks, e.l)
                 ELSE SubSeq(pc[t].locks, 1, Len(pc[t].locks) - 1)
     IN Step(t, St, IF Len(pc[t].prog) = 1 THEN NoPc
                    ELSE [pc[t] EXCEPT !.prog = Tail(@), !.locks = held])
  /\ UNCHANGED <<worker, client_lock, heap_lock>>

\* The handle operations on buffers from heaps that are not short of memory.
Next ==
  \/ \E c \in ClientIds : ion_client_create(c, {KernelThread, Process(0)})
  \/ \E c \in ClientIds : Alloc(c, PlainInputs)
  \/ \E c \in ClientIds, h \in HandleIds : ion_free(c, h)
  \/ \E c \in ClientIds, h \in HandleIds : ion_phys(c, h)
  \/ \E c \in ClientIds, h \in HandleIds : ion_sg_table(c, h)
  \/ \E c \in ClientIds, h \in HandleIds : ion_map_kernel(c, h)
  \/ \E c \in ClientIds, h \in HandleIds : ion_unmap_kernel(c, h)
  \/ \E c \in ClientIds, h \in HandleIds : ion_share_dma_buf_fd(c, h)
  \/ \E c \in ClientIds, fd \in DmaIds \cup {ForeignFd} : ion_import_dma_buf(c, fd)
  \/ \E d \in DmaIds : ion_dma_buf_release(d)
  \/ \E c \in ClientIds : ion_client_destroy(c)
  \/ \E h \in HeapIds : ion_heap_deferred_free(h)
  \/ Return

Spec == Init /\ [][Next]_vars

\* Allocation for clients of kernel threads, which the reclaim policy never
\* selects: every request and every answer of the heaps.
NextAlloc ==
  \/ \E c \in ClientIds : ion_client_create(c, {KernelThread})
  \/ \E c \in ClientIds : Alloc(c, AllInputs)
  \/ \E c \in ClientIds, h \in HandleIds : ion_free(c, h)
  \/ \E c \in ClientIds : ion_client_destroy(c)
  \/ \E h \in HeapIds : ion_heap_deferred_free(h)
  \/ Return

SpecAlloc == Init /\ [][NextAlloc]_vars

\* the client that allocates and shares, and the requests it makes
Exporter == CHOOSE c \in ClientIds : \A d \in ClientIds : c <= d
OkInputs == [lens |-> {1}, masks |-> {{1}}, flags |-> {{}}, scripts |-> {OkScript},
             lmk |-> {[needed |-> FALSE, min_adj |-> 0]}, hkz |-> {TRUE}, full |-> FALSE]

\* Import and Free of several threads on clients that allocate nothing, of
\* what the exporting client shared.
NextImport ==
  \/ \E c \in ClientIds : ion_client_create(c, {KernelThread, Process(0)})
  \/ Alloc(Exporter, OkInputs)
  \/ \E h \in HandleIds : ion_share_dma_buf_fd(Exporter, h)
  \/ \E t \in Threads, c \in ClientIds \ {Exporter}, fd \in DmaIds : ImportCall(t, c, fd)
  \/ \E t \in Threads : ImportLock(t)
  \/ \E t \in Threads : ImportLookup(t)
  \/ \E t \in Threads : ImportTake(t)
  \/ \E t \in Threads : ImportUnlock(t)
  \/ \E t \in Threads : FreeHeld(t)
  \/ \E t \in Threads : FreeLock(t)
  \/ \E t \in Threads : FreeBody(t)
  \/ \E t \in Threads : FreeUnlock(t)
  \/ Return

SpecImport == Init /\ [][NextImport]_vars

\* Allocation for clients of processes and of kernel threads from heaps that
\* are short of memory, with the reclaim policy and the clock.
ReclaimInputs ==
  [lens |-> {1, PAGE_SIZE + 1}, masks |-> {{0}, {0, 1}}, flags |-> {{}},
   scripts |-> {sc \in Scripts : sc.kz /\ sc.vm /\ sc.md \in {"OK", "NULL"}
                                 /\ {sc.a1, sc.a2} \subseteq {"OK"} \cup Errnos},
   lmk |-> LmkAnswers, hkz |-> {TRUE}, full |-> TRUE]

NextReclaim ==
  \/ \E c \in ClientIds : ion_client_create(c, {KernelThread, Process(0), Process(1)})
  \/ \E c \in ClientIds : Alloc(c, ReclaimInputs)
  \/ \E c \in ClientIds : AllocRetry(c, ReclaimInputs)
  \/ \E c \in ClientIds : ion_client_destroy(c)
  \/ Tick
  \/ Return

SpecReclaim == Init /\ [][NextReclaim]_vars

\* The retry loop of ion_alloc on its own: requests to both heaps, which
\* have memory or have none.
RetryInputs ==
  [lens |-> {1}, masks |-> {{0, 1}}, flags |-> {{}},
   scripts |-> {sc \in Scripts : sc.kz /\ sc.vm /\ sc.md = "OK"
                                 /\ {sc.a1, sc.a2} \subseteq {"OK", "ENOMEM"}},
   lmk |-> {[needed |-> FALSE, min_adj |-> 0]}, hkz |-> {TRUE}, full |-> TRUE]

NextRetry ==
  \/ \E c \in ClientIds : ion_client_create(c, {KernelThread, Process(0)})
  \/ \E c \in ClientIds : Alloc(c, RetryInputs)
  \/ \E c \in ClientIds : AllocRetry(c, RetryInputs)
  \/ \E c \in ClientIds : ion_client_destroy(c)
  \/ Tick
  \/ Return

\* The clock advances whatever the threads do (the jiffies of a grace period
\* are many sleeps of ION_OOM_SLEEP_TIME_MS long), an operation that has
\* finished returns, and a thread that sleeps in msleep is woken and makes
\* its next pass: strong fairness of AllocRetry(c, RetryInputs), which is
\* enabled exactly when c has a request asleep and no operation is between
\* its call and its return.
SpecRetryFair ==
  /\ Init /\ [][NextRetry]_vars
  /\ SF_vars(Tick)
  /\ WF_vars(Return)
  /\ \A c \in ClientIds :
       ([]<>(Idle /\ pending[c] # NoPending))
          => []<><<AllocRetry(c, RetryInputs)>>_vars

\* ion_shrink (ion.c 649-733) of a thread whose ion_alloc found no memory in
\* the heaps of mask, in two steps: the two loops, which read the clients, and
\* the block after them, which writes to the selected one. The thread holds
\* dev->lock for reading throughout (ion.c 781-843), as other threads may.
ion_shrink_steps(t, mask) ==
  /\ UNCHANGED <<worker, client_lock, heap_lock>>
  /\ IF pc[t].at = "idle"
     THEN LET sel == ShrinkScan(St, PairsOf(EligibleHeaps(mask), AddrOrder(dev_clients)),
                                NoVictim, 0, jiffies)
          IN Step(t, St, [NoPc EXCEPT !.at = "selected",
                                      !.client = IF sel.wait THEN 0 ELSE sel.client])
     ELSE /\ pc[t].at = "selected"
          /\ Step(t, IF pc[t].client = 0 THEN St
                     ELSE [St EXCEPT
                             !.oom_kill_count = @ + 1,
                             !.clients[pc[t].client].deathpending = TRUE,
                             !.clients[pc[t].client].killed = TRUE,
                             !.clients[pc[t].client].timeout =
                                jiffies + ION_OOM_TIMEOUT_JIFFIES],
                  NoPc)

\* Reclaim scans of several threads at once. Creating a client takes dev->lock
\* for writing, so it waits for the scans to end.
NextScan ==
  \/ /\ \A t \in Threads : pc[t].at = "idle"
     /\ \E c \in ClientIds : ion_client_create(c, {Process(0), Process(1)})
  \/ \E c \in ClientIds : Alloc(c, PlainInputs)
  \/ \E t \in Threads, mask \in {{0}, {1}} : ion_shrink_steps(t, mask)
  \/ Tick
  \/ Return

SpecScan == Init /\ [][NextScan]_vars

\* Kernel mappings through handles and through export objects, on buffers of
\* both kinds of heap.
NextKmap ==
  \/ \E c \in ClientIds : ion_client_create(c, {Process(0)})
  \/ Alloc(Exporter, PlainInputs)
  \/ \E c \in ClientIds, h \in HandleIds : ion_free(c, h)
  \/ \E c \in ClientIds, h \in HandleIds : ion_map_kernel(c, h)
  \/ \E c \in ClientIds, h \in HandleIds : ion_unmap_kernel(c, h)
  \/ \E h \in HandleIds : ion_share_dma_buf_fd(Exporter, h)
  \/ \E c \in ClientIds, fd \in DmaIds \cup {ForeignFd} : ion_import_dma_buf(c, fd)
  \/ \E d \in DmaIds : ion_dma_buf_begin_cpu_access(d)
  \/ \E d \in DmaIds : ion_dma_buf_end_cpu_access(d)
  \/ \E d \in DmaIds : ion_dma_buf_release(d)
  \/ \E c \in ClientIds : ion_client_destroy(c)
  \/ \E h \in HeapIds : ion_heap_deferred_free(h)
  \/ Return

SpecKmap == Init /\ [][NextKmap]_vars

\* the thread that frees and the threads whose allocations fail
Releasers == {1}
Drainers == Threads \ Releasers

\* Releases to a deferred-free heap, its kthread and the drains of failing
\* allocations, step by step.
NextDefer ==
  \/ \E c \in ClientIds : ion_client_create(c, {Process(0)})
  \/ Alloc(Exporter, OkInputs)
  \/ \E t \in Releasers, h \in HandleIds : FreeCall(t, Exporter, h)
  \/ \E t \in Threads : FreeLock(t)
  \/ \E t \in Threads : FreeBody(t)
  \/ \E t \in Threads : FreeWake(t)
  \/ \E t \in Threads : FreeUnlock(t)
  \/ \E t \in Drainers, h \in HeapIds : DrainCall(t, Exporter, h)
  \/ \E t \in Threads : DrainCheck(t)
  \/ \E t \in Threads : DrainLock(t)
  \/ \E t \in Threads : DrainLoop(t)
  \/ \E t \in Threads : DrainRetry(t)
  \/ \E h \in HeapIds : WorkerWait(h)
  \/ \E h \in HeapIds : WorkerPrepare(h)
  \/ \E h \in HeapIds : WorkerRecheck(h)
  \/ \E h \in HeapIds : WorkerSchedule(h)
  \/ \E h \in HeapIds : WorkerLock(h)
  \/ \E h \in HeapIds : WorkerFirst(h)
  \/ \E h \in HeapIds : WorkerDel(h)
  \/ \E h \in HeapIds : WorkerDestroy(h)
  \/ Return

SpecDefer == Init /\ [][NextDefer]_vars

\* the same under a fair scheduler: the kthread, a thread inside an operation
\* and an operation about to return are not held up for ever
SpecDeferFair ==
  /\ SpecDefer
  /\ \A h \in HeapIds : WF_vars(Worker(h))
  /\ \A t \in Threads : WF_vars(Running(t))
  /\ WF_vars(Return)

\* The lock operations of every operation, for one thread.
NextLocks ==
  \E t \in Releasers :
    \/ LockCall(t, ion_alloc_locks)
    \/ LockCall(t, ion_free_locks)
    \/ LockCall(t, ion_phys_locks)
    \/ LockCall(t, ion_map_kernel_locks)
    \/ LockCall(t, ion_unmap_kernel_locks)
    \/ LockCall(t, ion_lock_buffer_locks)
    \/ LockCall(t, ion_share_dma_buf_locks)
    \/ LockCall(t, ion_import_dma_buf_locks)
    \/ LockCall(t, ion_dma_buf_ops_locks)
    \/ LockCall(t, ion_client_create_locks)
    \/ LockCall(t, ion_client_put_locks)
    \/ LockCall(t, ion_freelist_total_locks)
    \/ LockCall(t, ion_debug_heap_show_locks)
    \/ LockCall(t, ion_heap_deferred_free_locks)
    \/ LockStep(t)

SpecLocks == Init /\ [][NextLocks]_vars

\* ---- a client's handle set, emptied and read step by step
\* ion_client_put dropping the last reference: with dev->lock taken for
\* writing, _ion_client_destroy takes the client out of dev->clients and gives
\* the lock back (ion.c 1173, 1149-1151). The caller has no other operation
\* on the client in progress; a report that found the client in dev->clients
\* may be.
ClientPutCall(t, c) ==
  /\ pc[t].at = "idle"
  /\ clients[c].st = "open" /\ c \in dev_clients
  /\ pending[c] = NoPending
  /\ \A u \in Threads :
       pc[u].client = c => pc[u].at \in {"total_lock", "total_visit", "total_unlock"}
  /\ Step(t, [St EXCEPT !.dev_clients = @ \ {c}],
          [NoPc EXCEPT !.at = "put_handles", !.client = c])
  /\ UNCHANGED <<worker, client_lock, heap_lock>>

\* one round of "while ((n = rb_first(&client->handles))) ion_handle_put(handle)",
\* which takes no lock of the client, or after the last round
\* "put_task_struct(client->task); kfree(client);" (ion.c 1153-1161)
ClientPutHandle(t) ==
  /\ pc[t].at = "put_handles"
  /\ LET c == pc[t].client
     IN IF chandles[c] = {}
        THEN Step(t, [St EXCEPT !.clients[c] = FreedClient], NoPc)
        ELSE Step(t, ion_handle_put(St, CHOOSE h \in chandles[c] :
                                          \A g \in chandles[c] : h <= g), pc[t])
  /\ UNCHANGED <<worker, client_lock, heap_lock>>

\* ion_debug_heap_show walks dev->clients without dev->lock and calls
\* ion_debug_heap_total on each client (ion.c 1726-1731)
HeapTotalCall(t, c) ==
  /\ pc[t].at = "idle"
  /\ c \in dev_clients
  /\ Step(t, St, [NoPc EXCEPT !.at = "total_lock", !.client = c])
  /\ UNCHANGED <<worker, client_lock, heap_lock>>

\* "mutex_lock(&client->lock); for (n = rb_first(&client->handles); ..."; on
\* a client that was kfree'd meanwhile the lock is a read of freed memory
HeapTotalLock(t) ==
  /\ pc[t].at = "total_lock"
  /\ LET c == pc[t].client
     IN IF clients[c].st # "open"
        THEN /\ \E r \in {"OK", "OOPS"} : Step(t, St, [NoPc EXCEPT !.at = "done", !.ret = r])
             /\ client_lock' = client_lock
        ELSE /\ mutex_lock(c)
             /\ client_lock' = [client_lock EXCEPT ![c] = t]
             /\ Step(t, St, [pc[t] EXCEPT
                               !.at = "total_visit",
                               !.handle = IF chandles[c] = {} THEN NULL
                                          ELSE CHOOSE h \in chandles[c] :
                                                 \A g \in chandles[c] : h <= g])
  /\ UNCHANGED <<worker, heap_lock>>

\* the body of the loop on the node the walk stands on and "n = rb_next(n)"
\* (ion.c 1696-1706); a node that was erased and freed under the walk is a
\* read of freed memory
HeapTotalVisit(t) ==
  /\ pc[t].at = "total_visit"
  /\ LET c == pc[t].client
         h == pc[t].handle
         after == {g \in chandles[c] : g > h}
     IN IF h = NULL THEN Step(t, St, [pc[t] EXCEPT !.at = "total_unlock", !.ret = "OK"])
        ELSE IF handles[h].st # "live"
        THEN \E r \in {"OK", "OOPS"} :
               Step(t, St, [pc[t] EXCEPT !.at = "total_unlock", !.ret = r])
        ELSE Step(t, St, [pc[t] EXCEPT
                            !.size = @ + buffers[handles[h].buffer].size,
                            !.handle = IF after = {} THEN NULL
                                       ELSE CHOOSE g \in after : \A k \in after : g <= k])
  /\ UNCHANGED <<worker, client_lock, heap_lock>>

\* "mutex_unlock(&client->lock); return size;"
HeapTotalUnlock(t) ==
  /\ pc[t].at = "total_unlock"
  /\ client_lock' = [client_lock EXCEPT ![pc[t].client] = NULL]
  /\ Step(t, St, NoPc)
  /\ UNCHANGED <<worker, heap_lock>>

\* ---- ion_share_dma_buf_fd step by step
\* "mutex_lock(&client->lock); valid_handle = ion_handle_validate(client,
\* handle); mutex_unlock(&client->lock);" and the return of -EINVAL
\* (ion.c 1445-1451)
ShareCall(t, c, h) ==
  /\ pc[t].at = "idle"
  /\ clients[c].st = "open" /\ c \in dev_clients
  /\ mutex_lock(c)
  /\ Step(t, St, IF ion_handle_validate(St, c, h)
                 THEN [NoPc EXCEPT !.at = "share_get", !.client = c, !.handle = h]
                 ELSE NoPc)
  /\ UNCHANGED <<worker, client_lock, heap_lock>>

\* "buffer = handle->buffer; ion_buffer_get(buffer);" with no lock held
\* (ion.c 1453-1454). On a handle that was kfree'd since the validation the
\* read is of freed memory: a fault, or some address that was a buffer's;
\* the kref_get on a buffer that was kfree'd is a write to freed memory.
ShareGet(t) ==
  /\ pc[t].at = "share_get"
  /\ LET h == pc[t].handle
     IN IF handles[h].st = "live"
        THEN Step(t, ion_buffer_get(St, handles[h].buffer),
                  [pc[t] EXCEPT !.at = "share_export", !.buf = handles[h].buffer])
        ELSE \/ Step(t, St, [NoPc EXCEPT !.at = "done", !.ret = "OOPS"])
             \/ \E b \in BufIds :
                  /\ buffers[b].st # "none"
                  /\ Step(t, IF buffers[b].st = "freed" THEN St ELSE ion_buffer_get(St, b),
                          [pc[t] EXCEPT !.at = "share_export", !.buf = b])
  /\ UNCHANGED <<worker, client_lock, heap_lock>>

\* dma_buf_export and dma_buf_fd, and the ion_buffer_put when one of them
\* fails (ion.c 1455-1459, 1473-1479); what they do with a buffer that was
\* kfree'd is not followed
ShareExport(t) ==
  /\ pc[t].at = "share_export"
  /\ LET b == pc[t].buf
         d == FreshIn(dmabufs, DmaIds)
     IN IF buffers[b].st # "live"
        THEN Step(t, St, [NoPc EXCEPT !.at = "done", !.ret = "OOPS"])
        ELSE \E ok \in {d # 0, FALSE} :
               IF ok
               THEN Step(t, [St EXCEPT !.dmabufs[d] = [st |-> "open", buffer |-> b]], NoPc)
               ELSE Step(t, ion_buffer_put(St, b), NoPc)
  /\ UNCHANGED <<worker, client_lock, heap_lock>>

\* Clients whose handle sets grow by Allocate and Import, shrink by Free and
\* by the destruction of the client, and are read by the usage report, on
\* buffers of the heap that frees at once.
SetInputs == [PlainInputs EXCEPT !.masks = {{0}}]

NextSets ==
  \/ \E c \in ClientIds : ion_client_create(c, {Process(0)})
  \/ \E c \in ClientIds : Alloc(c, SetInputs)
  \/ \E h \in HandleIds : ion_share_dma_buf_fd(Exporter, h)
  \/ \E t \in Drainers, c \in ClientIds, fd \in DmaIds : ImportCall(t, c, fd)
  \/ \E t \in Threads : ImportLock(t)
  \/ \E t \in Threads : ImportLookup(t)
  \/ \E t \in Threads : ImportTake(t)
  \/ \E t \in Threads : ImportUnlock(t)
  \/ \E t \in Drainers, c \in ClientIds, h \in HandleIds : FreeCall(t, c, h)
  \/ \E t \in Threads : FreeHeld(t)
  \/ \E t \in Threads : FreeLock(t)
  \/ \E t \in Threads : FreeBody(t)
  \/ \E t \in Threads : FreeUnlock(t)
  \/ \E t \in Drainers, c \in ClientIds : ClientPutCall(t, c)
  \/ \E t \in Threads : ClientPutHandle(t)
  \/ \E t \in Releasers, c \in ClientIds : HeapTotalCall(t, c)
  \/ \E t \in Threads : HeapTotalLock(t)
  \/ \E t \in Threads : HeapTotalVisit(t)
  \/ \E t \in Threads : HeapTotalUnlock(t)
  \/ Return

SpecSets == Init /\ [][NextSets]_vars

\* Share, QueryPhysicalAddress, MapKernel and Import of some threads while
\* another thread frees handles or destroys a client.
NextShare ==
  \/ \E c \in ClientIds : ion_client_create(c, {Process(0)})
  \/ \E c \in ClientIds : Alloc(c, SetInputs)
  \/ \E t \in Releasers, h \in HandleIds : ShareCall(t, Exporter, h)
  \/ \E t \in Threads : ShareGet(t)
  \/ \E t \in Threads : ShareExport(t)
  \/ \E c \in ClientIds, h \in HandleIds : ion_phys(c, h)
  \/ \E c \in ClientIds, h \in HandleIds : ion_map_kernel(c, h)
  \/ \E c \in ClientIds \ {Exporter}, fd \in DmaIds : ImportCall(MaxThreads, c, fd)
  \/ \E t \in Threads : ImportLock(t)
  \/ \E t \in Threads : ImportLookup(t)
  \/ \E t \in Threads : ImportTake(t)
  \/ \E t \in Threads : ImportUnlock(t)
  \/ \E c \in ClientIds, h \in HandleIds : FreeCall(2, c, h)
  \/ \E t \in Threads : FreeHeld(t)
  \/ \E t \in Threads : FreeLock(t)
  \/ \E t \in Threads : FreeBody(t)
  \/ \E t \in Threads : FreeUnlock(t)
  \/ \E c \in ClientIds : ClientPutCall(2, c)
  \/ \E t \in Threads : ClientPutHandle(t)
  \/ Return

SpecShare == Init /\ [][NextShare]_vars

\* ---- heap->used, updated step by step
\* heap->used is a plain integer: "heap_used->used += buffer->size" runs under
\* dev->lock taken for reading, which does not exclude other allocating
\* threads, and "buffer->heap->used -= buffer->size" under no lock of the heap
\* or the device, so each is a load and a store that other threads' loads and
\* stores can come between.
\* ion_alloc up to the buffer the walk made (ion.c 781-811)
UsedAlloc(t, c) ==
  /\ pc[t].at = "idle"
  /\ clients[c].st = "open"
  /\ CanAllocate
  /\ \E w \in HeapWalk(St, HeapOrder(HeapIds), PAGE_SIZE, {0}, {}, {OkScript}) :
       Step(t, w, [NoPc EXCEPT !.at = "used_load", !.client = c, !.buf = w.res.buf,
                               !.heap = w.buffers[w.res.buf].heap,
                               !.size = w.buffers[w.res.buf].size])
  /\ UNCHANGED <<worker, client_lock, heap_lock>>

\* the load of heap->used and the addition or subtraction in a register
\* (ion.c 812, 318)
UsedLoad(t) ==
  /\ pc[t].at = "used_load"
  /\ Step(t, St, [pc[t] EXCEPT !.at = "used_store",
                               !.size = IF pc[t].put THEN used[pc[t].heap] - @
                                        ELSE used[pc[t].heap] + @])
  /\ UNCHANGED <<worker, client_lock, heap_lock>>

\* the store of the result; ion_alloc goes on to the handle, _ion_buffer_destroy
\* returns into ion_free
UsedStore(t) ==
  /\ pc[t].at = "used_store"
  /\ Step(t, [St EXCEPT !.used[pc[t].heap] = pc[t].size],
          [pc[t] EXCEPT !.at = IF pc[t].put THEN "free_unlock" ELSE "alloc_handle",
                        !.size = 0])
  /\ UNCHANGED <<worker, client_lock, heap_lock>>

\* ion.c 870-885: the handle for the buffer, and the return
UsedHandle(t) ==
  /\ pc[t].at = "alloc_handle"
  /\ Step(t, AllocHandle([St EXCEPT !.res = [buf |-> pc[t].buf, err |-> ""]],
                         pc[t].client, FreshIn(handles, HandleIds) # 0),
          NoPc)
  /\ UNCHANGED <<worker, client_lock, heap_lock>>

\* ion_handle_validate and ion_handle_put in ion_free, up to the update of
\* heap->used in _ion_buffer_destroy when the put was the buffer's last
UsedFree(t) ==
  /\ pc[t].at = "free_body"
  /\ LET b == pc[t].buf
         s == ion_handle_put(St, pc[t].handle)
     IN IF ~ion_handle_validate(St, pc[t].client, pc[t].handle)
        THEN Step(t, St, [pc[t] EXCEPT !.at = "free_unlock", !.ret = "EINVAL"])
        ELSE IF s.buffers[b].st = "freed"
        THEN Step(t, [s EXCEPT !.used = St.used],
                  [pc[t] EXCEPT !.at = "used_load", !.put = TRUE, !.ret = "OK",
                                !.heap = buffers[b].heap, !.size = buffers[b].size])
        ELSE Step(t, s, [pc[t] EXCEPT !.at = "free_unlock", !.put = TRUE, !.ret = "OK"])
  /\ UNCHANGED <<worker, client_lock, heap_lock>>

\* Threads that allocate from and free to the heap that frees at once.
NextUsed ==
  \/ \E c \in ClientIds : ion_client_create(c, {Process(0)})
  \/ \E t \in Threads, c \in ClientIds : UsedAlloc(t, c)
  \/ \E t \in Threads : UsedLoad(t)
  \/ \E t \in Threads : UsedStore(t)
  \/ \E t \in Threads : UsedHandle(t)
  \/ \E t \in Threads, c \in ClientIds, h \in HandleIds : FreeCall(t, c, h)
  \/ \E t \in Threads : FreeLock(t)
  \/ \E t \in Threads : UsedFree(t)
  \/ \E t \in Threads : FreeUnlock(t)
  \/ Return

SpecUsed == Init /\ [][NextUsed]_vars

\* ---- threads that wait for each other's locks
\* The operations that take dev->lock for reading (down_read), the worker among
\* them, and those that take it for writing (down_write: ion_client_create,
\* ion_client_get_from_pid, ion_device_add_heap, ion_client_put).
ReaderProgs ==
  ion_alloc_locks \cup ion_free_locks \cup ion_phys_locks \cup ion_map_kernel_locks
    \cup ion_unmap_kernel_locks \cup ion_lock_buffer_locks \cup ion_share_dma_buf_locks
    \cup ion_import_dma_buf_locks \cup ion_dma_buf_ops_locks \cup ion_freelist_total_locks
    \cup ion_debug_heap_show_locks \cup ion_heap_deferred_free_locks
WriterProgs == ion_client_create_locks \cup ion_client_put_locks

\* the locks held after the first n lock operations of q
RECURSIVE HeldAfter(_, _)
HeldAfter(q, n) ==
  IF n = 0 THEN <<>>
  ELSE LET held == HeldAfter(q, n - 1)
       IN IF q[n].a = "lock" THEN Append(held, q[n].l)
          ELSE SubSeq(held, 1, Len(held) - 1)

\* what some operation asks for while it holds what: the pairs of the locks
\* held and the lock taken next, over every lock operation of every operation
\* ("dev_w": dev->lock taken for writing)
NestingsOf(progs, k) ==
  UNION {{<<[j \in 1..Len(HeldAfter(q, i - 1)) |->
               IF HeldAfter(q, i - 1)[j] = "dev" THEN k ELSE HeldAfter(q, i - 1)[j]],
            IF q[i].l = "dev" THEN k ELSE q[i].l>> :
            i \in {j \in 1..Len(q) : q[j].a = "lock"}} : q \in progs}
Nestings == NestingsOf(ReaderProgs, "dev") \cup NestingsOf(WriterProgs, "dev_w")

\* the locks of a kind: one dev->lock and one dev->buffer_lock, a lock in
\* every client, every buffer and every heap
LocksOf(k) ==
  IF k = "client" THEN ClientIds
  ELSE IF k = "buffer" THEN BufIds
  ELSE IF k = "heap" THEN HeapIds
  ELSE {0}

\* thread u holds a lock that keeps the lock w (kind, instance) from being
\* taken: the same mutex, or dev->lock unless both take it for reading
Excludes(u, w) ==
  \E j \in 1..Len(pc[u].locks) :
    /\ pc[u].inst[j] = w[2]
    /\ \/ pc[u].locks[j] = w[1] /\ w[1] # "dev"
       \/ {pc[u].locks[j], w[1]} \in {{"dev", "dev_w"}, {"dev_w"}}

\* the thread comes to a lock operation: it asks for a lock that some
\* operation takes while holding what the thread holds
WaitRequest(t) ==
  /\ pc[t].at \in {"idle", "nest"}
  /\ pc[t].want = <<>>
  /\ \E n \in Nestings :
       /\ n[1] = pc[t].locks
       /\ \E i \in LocksOf(n[2]) :
            Step(t, St, [pc[t] EXCEPT !.at = "nest", !.want = <<n[2], i>>])
  /\ UNCHANGED <<worker, client_lock, heap_lock>>

\* mutex_lock, rt_mutex_lock, down_read or down_write returns
WaitAcquire(t) ==
  /\ pc[t].at = "nest"
  /\ pc[t].want # <<>>
  /\ \A u \in Threads \ {t} : ~Excludes(u, pc[t].want)
  /\ Step(t, St, [pc[t] EXCEPT !.locks = Append(@, pc[t].want[1]),
                               !.inst = Append(@, pc[t].want[2]),
                               !.want = <<>>])
  /\ UNCHANGED <<worker, client_lock, heap_lock>>

\* the unlock of the lock taken last
WaitRelease(t) ==
  /\ pc[t].at = "nest"
  /\ pc[t].want = <<>>
  /\ Step(t, St, IF Len(pc[t].locks) = 1 THEN NoPc
                 ELSE [pc[t] EXCEPT !.locks = SubSeq(@, 1, Len(@) - 1),
                                    !.inst = SubSeq(@, 1, Len(@) - 1)])
  /\ UNCHANGED <<worker, client_lock, heap_lock>>

\* Threads in any operations, by the locks they hold and wait for.
NextWait ==
  \E t \in Threads : WaitRequest(t) \/ WaitAcquire(t) \/ WaitRelease(t)

SpecWait == Init /\ [][NextWait]_vars

\* ion_alloc of a thread, in two steps: up to the buffer that the walk made,
\* which is in dev->buffers with no handle attached (ion.c 777-843), and from
\* ion_handle_create to the insertion of the handle (870-885); the kzalloc of
\* the handle fails when the addresses of the model are used up. The insertion
\* into dev->buffers and the removal from it take dev->buffer_lock, which a
\* report may hold.
ion_alloc_steps(t, c) ==
  /\ UNCHANGED <<worker, client_lock, heap_lock>>
  /\ IF pc[t].at = "idle"
     THEN /\ clients[c].st = "open"
          /\ CanAllocate
          /\ \A r \in Threads : pc[r].todo = <<>>
          /\ \E mask \in {{0}, {1}} :
               \E w \in HeapWalk(St, HeapOrder(HeapIds), PAGE_SIZE, mask, {}, {OkScript}) :
                 LET u == AfterWalk(w, PAGE_SIZE, mask, [needed |-> FALSE, min_adj |-> 0],
                                    jiffies)
                 IN Step(t, u, [NoPc EXCEPT !.at = "alloc_handle", !.client = c,
                                            !.buf = u.res.buf])
     ELSE /\ pc[t].at = "alloc_handle"
          /\ pc[t].client = c
          /\ LET kz == FreshIn(handles, HandleIds) # 0
             IN /\ kz \/ \A r \in Threads : pc[r].todo = <<>>
                /\ Step(t, AllocHandle([St EXCEPT !.res = [buf |-> pc[t].buf,
                                                          err |-> ""]], c, kz),
                        NoPc)

\* The loop of a usage report over dev->buffers for heap h, under
\* dev->buffer_lock: ion_debug_heap_show (ion.c 1755-1771) reads
\* buffer->handle_count for the orphan test and again for the shared test,
\* each a step of its own since it does not hold buffer->lock;
\* ion_debug_print_per_heap (596-615) reads it twice under buffer->lock, which
\* ion_buffer_add_to_handle and ion_buffer_remove_from_handle take: one step
\* (locked). The thread stops at "reported" with what it has counted.
ion_debug_heap_show_steps(t, h, locked) ==
  /\ UNCHANGED <<worker, client_lock, heap_lock>>
  /\ LET b == Head(pc[t].todo)
         orphan == IF buffers[b].handle_count = 0 THEN {b} ELSE {}
         share == IF buffers[b].handle_count > 1 THEN {b} ELSE {}
         next == IF Tail(pc[t].todo) = <<>> THEN "reported" ELSE "orphan_test"
     IN IF pc[t].at = "idle"
        THEN /\ \A r \in Threads : pc[r].todo = <<>>
             /\ \E b1 \in dev_buffers : buffers[b1].heap = h
             /\ Step(t, St, [NoPc EXCEPT
                               !.at = "orphan_test", !.heap = h, !.got = locked,
                               !.todo = AddrOrder({x \in dev_buffers :
                                                     buffers[x].heap = h})])
        ELSE IF pc[t].at = "orphan_test" /\ pc[t].got
        THEN /\ pc[t].heap = h /\ locked
             /\ Step(t, St, [pc[t] EXCEPT !.at = next, !.todo = Tail(@),
                                          !.orphaned = @ \cup orphan,
                                          !.shared = @ \cup share])
        ELSE IF pc[t].at = "orphan_test"
        THEN /\ pc[t].heap = h /\ ~locked
             /\ Step(t, St, [pc[t] EXCEPT !.at = "shared_test",
                                          !.orphaned = @ \cup orphan])
        ELSE IF pc[t].at = "shared_test"
        THEN /\ pc[t].heap = h /\ ~locked
             /\ Step(t, St, [pc[t] EXCEPT !.at = next, !.todo = Tail(@),
                                          !.shared = @ \cup share])
        ELSE /\ pc[t].at = "reported"
             /\ pc[t].heap = h /\ pc[t].got = locked
             /\ Step(t, St, NoPc)

\* Usage reports of one thread while other threads allocate, share and import.
\* A Free may remove a buffer from dev->buffers, which takes dev->buffer_lock:
\* it waits for the report.
NextReport ==
  \/ \E c \in ClientIds : ion_client_create(c, {Process(0)})
  \/ \E t \in Drainers, c \in ClientIds : ion_alloc_steps(t, c)
  \/ \E c \in ClientIds, h \in HandleIds : ion_share_dma_buf_fd(c, h)
  \/ \E c \in ClientIds, fd \in DmaIds : ion_import_dma_buf(c, fd)
  \/ /\ \A r \in Threads : pc[r].todo = <<>>
     /\ \E c \in ClientIds, h \in HandleIds : ion_free(c, h)
  \/ \E t \in Releasers, h \in HeapIds, locked \in BOOLEAN :
       ion_debug_heap_show_steps(t, h, locked)
  \/ Return

SpecReport == Init /\ [][NextReport]_vars

\* ------------------------------------------------------------- properties
\* what the device, its clients and its heaps hold (everything but the clock,
\* the suspended requests and the observation of the running operation)
KernelState ==
  <<buffers, dev_buffers, handles, chandles, clients, dev_clients, dmabufs,
    free_list, used, oom_kill_count>>

\* the calls the running operation made so far, as a set
Called == {calls[i] : i \in 1..Len(calls)}

\* len rounded up to a whole number of pages, in the integers
RoundUp(len) == ((len + PAGE_SIZE - 1) \div PAGE_SIZE) * PAGE_SIZE

\* a heap of the request's mask accepted it: its allocate and its map_dma
\* both succeeded, and no allocation of kernel memory failed during the call
HeapAccepted ==
  /\ \E k \in Called : k.op = "map_dma" /\ k.r = "OK" /\ k.heap \in last.mask
  /\ \A k \in Called : k.op \notin {"kzalloc", "vmalloc"}

\* C1: an Allocate of a non-zero length that a heap of the mask accepts
\* returns a handle that is in the client's handle set and whose buffer has
\* the length rounded up to a whole number of pages, so at least the length.
C1_AllocateRoundsUp ==
  (last.op = "alloc" /\ last.len > 0 /\ HeapAccepted) =>
    /\ last.ret = "OK"
    /\ last.val \in chandles[last.client]
    /\ buffers[handles[last.val].buffer].size = RoundUp(last.len)
    /\ buffers[handles[last.val].buffer].size >= last.len

\* C2: an Allocate of length 0 fails with EINVAL whatever the mask and the
\* flags are, calls no heap, runs no reclaim and creates no buffer or handle.
C2_ZeroLengthRejected ==
  [][(last'.op = "alloc" /\ last'.len = 0) =>
       /\ last'.ret = "EINVAL"
       /\ calls' = <<>>
       /\ UNCHANGED KernelState]_vars

C2_Witness ==
  /\ last.op = "alloc" /\ last.len = 0 /\ last.ret = "EINVAL"
  /\ last.mask = {0, 1}
  /\ dev_buffers # {}

\* an Allocate whose mask names no registered heap
NoHeapNamed == last'.op = "alloc" /\ last'.len > 0 /\ last'.mask \cap HeapIds = {}

HandleOps == {"free", "map_kernel", "unmap_kernel", "phys", "share", "sg_table"}

\* C3: once Free has destroyed a handle of a client, every later operation of
\* that client that is given the handle (Free, MapKernel, UnmapKernel, Phys,
\* Share, sg-table) fails with the invalid-handle result.
C3_FreedHandleRejected ==
  [][\A h \in HandleIds :
       (/\ handles[h].st = "freed"
        /\ last'.op \in HandleOps
        /\ last'.handle = h
        /\ last'.client = handles[h].client) => last'.ret = "EINVAL"]_vars

\* the handles of client c that wrap buffer b
HandlesOn(c, b) == {h \in chandles[c] : handles[h].buffer = b}

\* what a Share and an Import that succeed do: the export object is of the
\* handle's buffer; the Import returns a handle of the importing client's set
\* on that buffer, the one the client already has (one more reference, the set
\* as it was) or a new one with one reference
ImportSharesBuffer ==
  /\ (last'.op = "share" /\ last'.ret = "OK") =>
       /\ dmabufs'[last'.val].buffer = handles[last'.handle].buffer
       /\ dmabufs[last'.val].st = "none"
  /\ (last'.op = "import" /\ last'.ret = "OK") =>
       LET c == last'.client
           b == dmabufs[last'.fd].buffer
           g == last'.val
       IN /\ g \in chandles'[c]
          /\ handles'[g].buffer = b
          /\ b \in dev_buffers'
          /\ HandlesOn(c, b) # {} =>
               /\ g \in HandlesOn(c, b)
               /\ handles'[g].ref = handles[g].ref + 1
               /\ chandles' = chandles
          /\ HandlesOn(c, b) = {} =>
               /\ handles[g].st = "none"
               /\ handles'[g].ref = 1
               /\ chandles' = [chandles EXCEPT ![c] = @ \cup {g}]

\* an Import on client c of the export object a Share on another client made,
\* during which no allocation of kernel memory failed
ImportOfShared(c) ==
  /\ last'.op = "import" /\ last'.client = c
  /\ last'.fd \in DmaIds
  /\ dmabufs[last'.fd].st = "open"
  /\ \E a \in ClientIds \ {c} : HandlesOn(a, dmabufs[last'.fd].buffer) # {}
  /\ \A k \in Called' : k.op # "kzalloc"

\* C5: Share on client A followed by Import of the export object on another
\* client B yields a handle of B's set on the same buffer; importing it again
\* into B returns that handle with one more reference and adds no second
\* handle for the buffer to B's set.
C5_ShareThenImport ==
  [][/\ \A c \in ClientIds : ImportOfShared(c) => last'.ret = "OK"
     /\ ImportSharesBuffer]_vars

\* C6: when the last reference to a buffer goes, on a deferred-free heap the
\* releasing thread takes the buffer out of the device's index, puts it on the
\* heap's free-list and wakes the worker, without calling unmap_dma or free;
\* on any other heap the buffer is torn down before the release returns.
C6_ReleaseDefersOrDestroys ==
  [][\A b \in BufIds :
       (buffers[b].st = "live" /\ buffers'[b].st # "live") =>
         LET h == buffers[b].heap
         IN /\ b \notin dev_buffers'
            /\ IF DeferFree(h)
               THEN /\ buffers'[b].st = "freelist"
                    /\ \E i \in 1..Len(free_list'[h]) : free_list'[h][i] = b
                    /\ \E k \in Called' : k.op = "wake_up" /\ k.heap = h
                    /\ \A k \in Called' :
                         k.buf = b => k.op \notin {"unmap_dma", "free"}
               ELSE /\ buffers'[b].st = "freed"
                    /\ \E k \in Called' : k.op = "unmap_dma" /\ k.buf = b
                    /\ \E k \in Called' : k.op = "free" /\ k.buf = b
                    /\ \A g \in HeapIds : \A i \in 1..Len(free_list'[g]) :
                         free_list'[g][i] # b]_vars

\* a Free put a buffer on the free-list while another was already there
C6_Witness ==
  /\ last.op = "free"
  /\ \E k \in Called : k.op = "wake_up"
  /\ Len(free_list[1]) = 2
  /\ \A k \in Called : k.op \notin {"unmap_dma", "free"}

\* handle h is the only holder of a kernel mapping of its buffer
SoleMapper(h) ==
  /\ handles[h].st = "live"
  /\ handles[h].kmap_cnt <= MaxKmap
  /\ buffers[handles[h].buffer].kmap_cnt = (IF handles[h].kmap_cnt > 0 THEN 1 ELSE 0)

\* C9: on a handle that alone maps its buffer, a MapKernel at count 0 calls the
\* heap's map_kernel and returns the address it gave; a MapKernel at count 1
\* returns the same address without a heap call and makes the count 2; an
\* UnmapKernel at count 2 calls no heap operation and one at count 1 calls the
\* heap's unmap_kernel, after which a MapKernel calls the heap again.
C9_KernelMapCounted ==
  [][\A h \in HandleIds :
       (SoleMapper(h) /\ last'.handle = h) =>
         LET b == handles[h].buffer
             n == handles[h].kmap_cnt
             mapping == last'.op = "map_kernel" /\ last'.client = handles[h].client
             unmapping == last'.op = "unmap_kernel"
             heapmaps == {k \in Called' : k.op = "map_kernel" /\ k.buf = b}
         IN /\ (mapping /\ n = 0) =>
                 /\ Cardinality(heapmaps) = 1 /\ Len(calls') = 1
                 /\ (\E k \in heapmaps : k.r = "OK") =>
                      /\ last'.ret = "OK" /\ last'.val # NULL
                      /\ last'.val = buffers'[b].vaddr
                      /\ handles'[h].kmap_cnt = 1
            /\ (mapping /\ n = 1) =>
                 /\ last'.ret = "OK" /\ last'.val # NULL
                 /\ last'.val = buffers[b].vaddr
                 /\ buffers'[b].vaddr = buffers[b].vaddr
                 /\ calls' = <<>>
                 /\ handles'[h].kmap_cnt = 2
            /\ (unmapping /\ n = 2) =>
                 /\ calls' = <<>>
                 /\ handles'[h].kmap_cnt = 1
                 /\ buffers'[b] = buffers[b]
            /\ (unmapping /\ n = 1) =>
                 /\ calls' = <<[op |-> "unmap_kernel", heap |-> buffers[b].heap,
                               buf |-> b, r |-> ""]>>
                 /\ handles'[h].kmap_cnt = 0
                 /\ buffers'[b].kmap_cnt = 0]_vars

\* the second of two MapKernel calls on the only handle of a buffer
C9_Witness ==
  /\ last.op = "map_kernel" /\ last.ret = "OK" /\ calls = <<>>
  /\ last.handle \in HandleIds
  /\ handles[last.handle].kmap_cnt = 2
  /\ buffers[handles[last.handle].buffer].kmap_cnt = 1
  /\ buffers[handles[last.handle].buffer].handle_count = 1
  /\ last.val = buffers[handles[last.handle].buffer].vaddr

\* the threads whose Import took a reference for client c on buffer b, and
\* those of them whose Free gave it back
Took(c, b) == {t \in Threads : pc[t].client = c /\ pc[t].buf = b /\ pc[t].got}
Gave(c, b) == {t \in Took(c, b) : pc[t].put}
Refs(c, b) == Cardinality(Took(c, b)) - Cardinality(Gave(c, b))

\* the Imports not yet freed are all on one handle, whose count is their number
OneHandle(c, b) ==
  /\ Refs(c, b) > 0 =>
       /\ Cardinality(HandlesOn(c, b)) = 1
       /\ \A h \in HandlesOn(c, b) :
            /\ handles[h].ref = Refs(c, b)
            /\ \A t \in Took(c, b) \ Gave(c, b) : pc[t].handle = h
  /\ Refs(c, b) = 0 => HandlesOn(c, b) = {}

\* what the Imports that took a reference and the Frees of the handle do:
\* the Imports not yet freed are on one handle whose count is their number;
\* every Free of it finds the handle valid, the Free that brings the count to
\* zero destroys the handle (one removal from the set, one decrement of the
\* buffer's handle count, one buffer reference dropped) and no earlier Free
\* changes the set or the buffer
ImportCountsFreeDestroysOnce ==
  \A c \in ClientIds \ {Exporter}, b \in BufIds :
    /\ OneHandle(c, b)'
    /\ \A t \in Threads :
         (/\ pc[t].at = "free_body" /\ pc'[t].at # "free_body"
          /\ pc[t].client = c /\ pc[t].buf = b) =>
           LET h == pc[t].handle
           IN /\ pc'[t].ret = "OK"
              /\ h \in chandles[c]
              /\ IF Refs(c, b)' = 0
                 THEN /\ handles'[h].st = "freed"
                      /\ chandles'[c] = chandles[c] \ {h}
                      /\ buffers'[b].handle_count = buffers[b].handle_count - 1
                      /\ buffers'[b].ref = buffers[b].ref - 1
                 ELSE /\ handles'[h] = [handles[h] EXCEPT !.ref = @ - 1]
                      /\ chandles' = chandles
                      /\ buffers' = buffers

\* when every descriptor is an open export object, no Import call returns
\* before it has taken the client's lock
EveryImportCounts ==
  (\A d \in DmaIds : dmabufs[d].st = "open") =>
    \A t \in Threads : ~(pc[t].at = "idle" /\ pc'[t].at = "done")

\* C4: on a client that holds no handle on buffer B, N Imports of B's export
\* object, in any interleaving, leave one handle on B with reference count N;
\* N Frees of it bring the count to zero and destroy the handle once, at the
\* N-th Free and not before.
C4_ImportCountsFreeDestroysOnce ==
  [][EveryImportCounts /\ ImportCountsFreeDestroysOnce]_vars

\* C7: under a fair scheduler every buffer put on a free-list is torn down
\* and a free-list that is not empty becomes empty, also when the buffer is
\* put on the list between the worker's check and its going to sleep.
C7_FreeListDrained ==
  /\ \A b \in BufIds : (buffers[b].st = "freelist") ~> (buffers[b].st = "freed")
  /\ \A h \in HeapIds : (free_list[h] # <<>>) ~> (free_list[h] = <<>>)

\* a buffer is on the list, its wake_up is still to come, and the worker has
\* seen an empty list and is about to sleep
C7_Witness ==
  /\ worker[1].at = "schedule" /\ ~worker[1].woken
  /\ free_list[1] # <<>>
  /\ \E t \in Threads : pc[t].at = "free_wake"

\* C8: the worker and the drains tear down every buffer of the free-list once
\* (no address sees _ion_buffer_destroy twice), and a drain that took the
\* lock finds the list empty when it is through (its BUG_ON does not fire).
C8_DrainedExactlyOnce ==
  /\ \A b \in BufIds : buffers[b].torn <= 1
  /\ \A b \in BufIds : buffers[b].st = "freed" => buffers[b].torn = 1
  /\ \A t \in Threads : pc[t].ret # "BUG"
  /\ \A h \in HeapIds : \A i \in 1..Len(free_list[h]) :
       /\ buffers[free_list[h][i]].st = "freelist"
       /\ \A j \in 1..Len(free_list[h]) : free_list[h][i] = free_list[h][j] => i = j

\* a drain is through with one buffer while the worker holds another that it
\* took off the list
C8_Witness ==
  /\ \E t \in Threads : pc[t].at = "drain_retry" /\ pc[t].ret = "OK"
  /\ worker[1].at = "destroy"
  /\ buffers[worker[1].buf].st = "freelist"
  /\ \E b \in BufIds : buffers[b].torn = 1

\* C11: an operation that is given a handle (Free, Phys, MapKernel,
\* UnmapKernel, sg-table, Share) which is a handle of another client, so not
\* in the calling client's set, returns the invalid-handle result, calls no
\* heap and leaves every handle and every buffer as it was.
C11_HandleValidatedFirst ==
  [][\A h \in HandleIds :
       (/\ last'.op \in HandleOps
        /\ last'.handle = h
        /\ handles[h].st = "live"
        /\ h \notin chandles[last'.client]) =>
         /\ last'.ret = "EINVAL"
         /\ calls' = <<>>
         /\ handles' = handles
         /\ buffers' = buffers]_vars

\* the buffers that are on a heap's free-list
OnFreeList ==
  UNION {{free_list[h][i] : i \in 1..Len(free_list[h])} : h \in HeapIds}

KmapCounts ==
  <<[b \in BufIds |-> buffers[b].kmap_cnt], [h \in HandleIds |-> handles[h].kmap_cnt]>>

\* C13: a buffer whose kernel-mapping count is greater than zero has a valid
\* cached kernel address and a buffer whose count is zero has none.
KmapAddressCached ==
  \A b \in BufIds :
    /\ buffers[b].kmap_cnt > 0 => buffers[b].vaddr \in Addrs
    /\ buffers[b].kmap_cnt = 0 => buffers[b].vaddr = NULL

\* C13: the invariant above holds before and after every step, and a
\* map_kernel of the heap that fails leaves the count of every buffer and of
\* every handle as it was.
C13_KmapCountHasAddress ==
  [][/\ KmapAddressCached /\ KmapAddressCached'
     /\ (\E k \in Called' : k.op = "map_kernel" /\ k.r # "OK") =>
          KmapCounts' = KmapCounts]_vars

\* a begin_cpu_access whose buffer the heap would not map, while another
\* buffer is mapped through its handle
C13_Witness ==
  /\ last.op = "begin_cpu_access" /\ last.ret = "ENOMEM"
  /\ \E k \in Called : k.op = "map_kernel" /\ k.r = "NULL"
  /\ buffers[dmabufs[last.val].buffer].kmap_cnt = 0
  /\ \E b \in BufIds : buffers[b].kmap_cnt = 1 /\ buffers[b].vaddr \in Addrs
  /\ \E h \in HandleIds : handles[h].kmap_cnt = 2

C15_ClientDestroyDropsHandles ==
  [][last'.op = "client_destroy" =>
       LET c == last'.client
           n(b) == Cardinality(HandlesOn(c, b))
       IN /\ chandles'[c] = {}
          /\ c \notin dev_clients'
          /\ clients'[c].st = "freed"
          /\ \A h \in chandles[c] : handles'[h].st = "freed"
          /\ \A h \in HandleIds : handles'[h].st = "live" => handles'[h].client # c
          /\ \A h \in HandleIds : h \notin chandles[c] => handles'[h] = handles[h]
          /\ \A d \in ClientIds \ {c} : chandles'[d] = chandles[d]
          /\ \A b \in dev_buffers :
               IF buffers[b].ref = n(b)
               THEN /\ b \notin dev_buffers'
                    /\ buffers'[b].st \in {"freelist", "freed"}
               ELSE /\ b \in dev_buffers'
                    /\ buffers'[b].ref = buffers[b].ref - n(b)
                    /\ buffers'[b].handle_count = buffers[b].handle_count - n(b)]_vars

\* a client was destroyed with two handles in its set: the buffer of one is
\* kept by its export object, the buffer of the other went with the handle
C15_Witness ==
  /\ last.op = "client_destroy"
  /\ \A h \in HandleIds : handles[h] = FreedHandle(last.client)
  /\ \E b \in dev_buffers : buffers[b].ref = 1 /\ buffers[b].handle_count = 0
  /\ \E b \in BufIds : buffers[b].st \in {"freelist", "freed"}

\* the export objects of buffer b, in the table dm, that were not released
ExportsIn(dm, b) == {d \in DmaIds : dm[d].st = "open" /\ dm[d].buffer = b}

\* what a step does to the reference counts of the buffers other than b
OthersKept(b) == \A x \in BufIds \ {b} : buffers'[x] = buffers[x]

\* C16: a Share that succeeds adds one reference to the handle's buffer; the
\* export object holds it until it is released (its buffer is alive, with at
\* least one reference for each export object); the release drops that one
\* reference; a Share that fails, for an invalid handle, a failed export or
\* want of a descriptor, leaves every buffer's reference count as it was.
C16_ExportHoldsOneReference ==
  [][/\ (last'.op = "share" /\ last'.ret = "OK") =>
          LET b == handles[last'.handle].buffer
          IN /\ buffers'[b] = [buffers[b] EXCEPT !.ref = @ + 1]
             /\ OthersKept(b)
             /\ ExportsIn(dmabufs', b) = ExportsIn(dmabufs, b) \cup {last'.val}
             /\ last'.val \notin ExportsIn(dmabufs, b)
     /\ (last'.op = "share" /\ last'.ret # "OK") =>
          /\ buffers' = buffers
          /\ dev_buffers' = dev_buffers
          /\ \A b \in BufIds : ExportsIn(dmabufs', b) = ExportsIn(dmabufs, b)
     /\ last'.op = "release" =>
          LET b == dmabufs[last'.val].buffer
          IN /\ ExportsIn(dmabufs', b) = ExportsIn(dmabufs, b) \ {last'.val}
             /\ last'.val \in ExportsIn(dmabufs, b)
             /\ OthersKept(b)
             /\ IF buffers[b].ref = 1
                THEN b \notin dev_buffers' /\ buffers'[b].st \in {"freelist", "freed"}
                ELSE buffers'[b] = [buffers[b] EXCEPT !.ref = @ - 1]
     /\ \A b \in BufIds :
          ExportsIn(dmabufs', b) # {} =>
            /\ b \in dev_buffers'
            /\ buffers'[b].st = "live"
            /\ buffers'[b].ref >= Cardinality(ExportsIn(dmabufs', b))]_vars

\* an export object was released while a handle still holds its buffer
C16_Witness ==
  /\ last.op = "release"
  /\ dmabufs[last.val].st = "released"
  /\ LET b == dmabufs[last.val].buffer
     IN /\ b \in dev_buffers
        /\ buffers[b].ref = 1 /\ buffers[b].handle_count = 1

\* a buffer that outlived every handle through its export object
Orphaned(b) ==
  /\ b \in dev_buffers
  /\ buffers[b].st = "live"
  /\ buffers[b].handle_count = 0
  /\ ExportsIn(dmabufs, b) # {}

\* C17: a buffer with an open export object survives the destruction of the
\* client that allocated it: it stays in the buffer index, alive, with no
\* handle attached when the client's handle was its only one; an Import of
\* the export object on another client, unless the handle record cannot be
\* allocated, succeeds and returns a handle on that buffer; and the buffer is
\* torn down or put on its heap's free-list only by the step that drops its
\* last reference, when no export object and no handle is left on it.
C17_ExportOutlivesClient ==
  [][/\ last'.op = "client_destroy" =>
          \A b \in BufIds :
            ExportsIn(dmabufs, b) # {} =>
              /\ b \in dev_buffers'
              /\ buffers'[b].st = "live"
              /\ buffers'[b].handle_count =
                   buffers[b].handle_count - Cardinality(HandlesOn(last'.client, b))
     /\ \A c \in ClientIds, b \in BufIds :
          (/\ Orphaned(b)
           /\ \E a \in ClientIds \ {c} :
                clients[a].st = "freed" /\ \E h \in HandleIds : handles[h] = FreedHandle(a)
           /\ last'.op = "import" /\ last'.client = c
           /\ last'.fd \in ExportsIn(dmabufs, b)
           /\ \A k \in Called' : k.op # "kzalloc") =>
            /\ last'.ret = "OK"
            /\ last'.val \in chandles'[c]
            /\ handles'[last'.val].buffer = b
            /\ buffers'[b].handle_count = 1
     /\ \A b \in BufIds :
          (buffers[b].st = "live" /\ buffers'[b].st # "live") =>
            /\ last'.op \in {"release", "free", "client_destroy"}
            /\ ExportsIn(dmabufs', b) = {}
            /\ \A h \in HandleIds : ~(handles'[h].st = "live" /\ handles'[h].buffer = b)]_vars

\* the positions in the log of the running operation of the calls of op on
\* buffer b
CallsOn(log, op, b) == {i \in 1..Len(log) : log[i].op = op /\ log[i].buf = b}

\* C18: the heap's free is never called on a buffer whose kernel address is
\* still mapped. At the teardown of a buffer whose kernel-mapping count is
\* above zero the heap's unmap_kernel is called on it before unmap_dma, and
\* unmap_dma before free; a buffer torn down with a count that is not above
\* zero has no kernel address cached.
C18_UnmappedBeforeFree ==
  [][\A b \in BufIds :
       (buffers[b].st \in {"live", "freelist"} /\ buffers'[b].st = "freed") =>
         /\ Cardinality(CallsOn(calls', "free", b)) = 1
         /\ \A f \in CallsOn(calls', "free", b) :
              /\ \E d \in CallsOn(calls', "unmap_dma", b) : d < f
              /\ IF buffers[b].kmap_cnt > 0
                 THEN \E u \in CallsOn(calls', "unmap_kernel", b) :
                        \A d \in CallsOn(calls', "unmap_dma", b) : u < d
                 ELSE buffers[b].vaddr = NULL]_vars

\* the worker tore down a buffer that an export object's CPU access had left
\* mapped
C18_Witness ==
  /\ last.op = "worker"
  /\ buffers[last.val].st = "freed"
  /\ Len(calls) = 3
  /\ calls[1].op = "unmap_kernel" /\ calls[2].op = "unmap_dma" /\ calls[3].op = "free"
  /\ \A i \in 1..3 : calls[i].buf = last.val

\* the place of lock l in the list of the locks held (0: not held)
HeldAt(held, l) ==
  IF \E i \in 1..Len(held) : held[i] = l
  THEN CHOOSE i \in 1..Len(held) : held[i] = l /\ \A j \in 1..(i - 1) : held[j] # l
  ELSE 0

\* C19: a thread that holds a client lock and a buffer lock took the client
\* lock first; no thread asks for a client lock while it holds a buffer lock,
\* and none asks for the device-wide lock while it holds a client lock or a
\* buffer lock.
C19_LockOrder ==
  [][\A t \in Threads :
       LET held == pc[t].locks
           next == pc'[t].locks
       IN /\ (HeldAt(next, "client") > 0 /\ HeldAt(next, "buffer") > 0) =>
               HeldAt(next, "client") < HeldAt(next, "buffer")
          /\ (Len(next) = Len(held) + 1 /\ next[Len(next)] = "client") =>
               HeldAt(held, "buffer") = 0
          /\ (Len(next) = Len(held) + 1 /\ next[Len(next)] = "dev") =>
               HeldAt(held, "client") = 0 /\ HeldAt(held, "buffer") = 0]_vars

\* a thread holds a client lock and a buffer lock
C19_Witness ==
  \E t \in Threads : pc[t].locks = <<"client", "buffer">>

\* an Import of a dma_buf that another exporter made
ForeignImport == last.op = "idle" /\ last'.op = "import" /\ last'.fd = ForeignFd

\* C20: an Import of a shareable object that the export bridge did not make
\* fails with the invalid-argument error, creates no handle, changes no
\* reference count of a handle or a buffer, and gives back the reference it
\* took on the foreign object.
C20_ForeignImportRejected ==
  [][ForeignImport =>
       /\ last'.ret = "EINVAL" /\ last'.val = 0
       /\ handles' = handles /\ chandles' = chandles
       /\ buffers' = buffers /\ dev_buffers' = dev_buffers
       /\ dmabufs' = dmabufs
       /\ calls' = <<[op |-> "dma_buf_get", heap |-> 0, buf |-> ForeignFd, r |-> ""],
                     [op |-> "dma_buf_put", heap |-> 0, buf |-> ForeignFd, r |-> ""]>>]_vars

\* one pass of an Allocate of a non-zero length over the heaps
AllocWalk == last.op = "idle" /\ last'.op \in {"alloc", "alloc_sleep"} /\ last'.len > 0

\* the places where ion_buffer_create has made a buffer: map_dma answered
\* with a table and the page array, where one is needed, was allocated
Yields(log) == {i \in 1..Len(log) :
                  /\ log[i].op = "map_dma" /\ log[i].r = "OK"
                  /\ ~(i < Len(log) /\ log[i + 1].op = "vmalloc")}

\* C22: an Allocate tries the heaps in descending order of their ids, never
\* calls allocate on a heap that is not in the mask, and stops at the first
\* heap that yields a buffer: the buffer returned is of the highest heap of
\* the mask that yields one, and no heap is tried after it.
C22_HeapsInDescendingOrder ==
  [][AllocWalk =>
       LET log == calls'
           \* where ion_buffer_create begins on a heap: the kzalloc of the
           \* buffer record failed, or the heap's allocate is called
           walked == {i \in 1..Len(log) :
                        /\ log[i].op \in {"kzalloc", "allocate"}
                        /\ \A k \in 1..i : k \notin Yields(log)}
       IN /\ \A i, j \in walked : i < j => log[i].heap >= log[j].heap
          /\ \A i \in 1..Len(log) : log[i].op = "allocate" => log[i].heap \in last'.mask
          /\ \A y \in Yields(log), i \in 1..Len(log) : log[i].op = "allocate" => i < y
          /\ \A h \in last'.mask \cap HeapIds :
               (\A y \in Yields(log) : log[y].heap < h) =>
                  \E i \in walked : log[i].heap = h
          /\ last'.ret = "OK" =>
               /\ Cardinality(Yields(log)) = 1
               /\ \A y \in Yields(log) :
                    log[y].heap = buffers'[handles'[last'.val].buffer].heap]_vars

\* an Allocate over both heaps that the higher refused and the lower served
C22_Witness ==
  /\ last.op = "alloc" /\ last.ret = "OK" /\ last.mask = {0, 1}
  /\ buffers[handles[last.val].buffer].heap = 0
  /\ \E i \in 1..Len(calls) : calls[i].op = "allocate" /\ calls[i].heap = 1

\* the places in the log of the calls of allocate on heap h
AllocatesOn(log, h) == {i \in 1..Len(log) : log[i].op = "allocate" /\ log[i].heap = h}
\* the entries of a list, as a set
Entries(list) == {list[i] : i \in 1..Len(list)}

\* C23: in one walk, when allocate of a heap of the mask fails, a heap with
\* the deferred-free flag has its free list drained at once (every buffer on
\* it is freed) and its allocate is called exactly once more before another
\* heap is tried; a heap without the flag has its allocate called once and
\* nothing is drained.
C23_DrainAndRetryOnce ==
  [][AllocWalk =>
       \A h \in HeapIds :
         LET log == calls'
             on == AllocatesOn(log, h)
             first == CHOOSE i \in on : \A j \in on : i <= j
         IN (on # {} /\ log[first].r # "OK") =>
              IF DeferFree(h)
              THEN /\ Cardinality(on) = 2
                   /\ \A j \in on \ {first} :
                        /\ \A k \in (first + 1)..(j - 1) :
                             /\ log[k].op \in {"unmap_kernel", "unmap_dma", "free"}
                             /\ log[k].buf \in Entries(free_list[h])
                        /\ \A b \in Entries(free_list[h]) :
                             Cardinality({k \in (first + 1)..(j - 1) :
                                            log[k].op = "free" /\ log[k].buf = b}) = 1
                        /\ \A k \in (j + 1)..Len(log) :
                             log[k].op = "free" => log[k].buf \notin Entries(free_list[h])
              ELSE /\ Cardinality(on) = 1
                   /\ \A k \in 1..Len(log) :
                        log[k].heap = h => log[k].op \notin {"unmap_dma", "free"}]_vars

\* the allocate of the deferred-free heap failed, a buffer of its free list
\* was freed, and the second allocate served the request
C23_Witness ==
  /\ last.op = "alloc" /\ last.ret = "OK"
  /\ \E i, j, k \in 1..Len(calls) :
       /\ i < j /\ j < k
       /\ calls[i].op = "allocate" /\ calls[i].heap = 1 /\ calls[i].r # "OK"
       /\ calls[j].op = "free" /\ calls[j].heap = 1
       /\ calls[k].op = "allocate" /\ calls[k].heap = 1 /\ calls[k].r = "OK"

\* the places in the log where a heap's allocate succeeded and the creation
\* of the buffer failed after it: map_dma gave no table, or the page array
\* was not allocated
FailedAfterAllocate(log) ==
  {i \in 1..Len(log) :
     /\ log[i].op = "allocate" /\ log[i].r = "OK"
     /\ \/ i + 1 <= Len(log) /\ log[i + 1].op = "map_dma" /\ log[i + 1].r # "OK"
        \/ i + 2 <= Len(log) /\ log[i + 2].op = "vmalloc"}

\* C24: when the creation of a buffer fails after the heap's allocate
\* succeeded, the heap's free is called on the memory just allocated, the
\* record is discarded and the buffer is not in the buffer index.
C24_FailedCreateFreesMemory ==
  [][AllocWalk =>
       LET log == calls'
       IN /\ \A i \in FailedAfterAllocate(log) :
               \E k \in (i + 1)..Len(log) :
                 /\ k <= i + 4
                 /\ log[k].op = "free"
                 /\ log[k].heap = log[i].heap /\ log[k].buf = log[i].buf
          /\ Yields(log) = {} =>
               /\ dev_buffers' \subseteq dev_buffers
               /\ \A b \in BufIds : buffers'[b].st = "live" => buffers[b].st = "live"]_vars

\* C25: when an Allocate returns a handle, the new buffer has exactly one
\* reference and one handle-attachment, the handle has one reference and is
\* in the client's set; when the handle cannot be created after the buffer
\* was, the buffer's last reference is dropped, the buffer is released and
\* the error is returned.
C25_AllocateOwnsOneReference ==
  [][AllocWalk =>
       LET log == calls'
           c == last'.client
       IN /\ last'.ret = "OK" =>
               LET h == last'.val
                   b == handles'[h].buffer
               IN /\ handles[h].st # "live" /\ handles'[h].st = "live"
                  /\ handles'[h].client = c /\ handles'[h].ref = 1
                  /\ chandles'[c] = chandles[c] \cup {h}
                  /\ buffers[b].st # "live" /\ buffers'[b].st = "live"
                  /\ buffers'[b].ref = 1 /\ buffers'[b].handle_count = 1
                  /\ b \in dev_buffers'
          /\ \A y \in Yields(log) :
               IF \A k \in y..Len(log) : log[k].op # "kzalloc" THEN last'.ret = "OK"
               ELSE
                  LET b == log[y].buf
                  IN /\ last'.ret = "ENOMEM"
                     /\ buffers'[b].ref = 0
                     /\ buffers'[b].st = IF DeferFree(log[y].heap) THEN "freelist" ELSE "freed"
                     /\ b \notin dev_buffers'
                     /\ chandles' = chandles
                     /\ \A h \in HandleIds : handles'[h].st = "live" => handles[h].st = "live"]_vars

\* the handle record could not be allocated and the new buffer went to the
\* free list of its heap
C25_Witness ==
  /\ last.op = "alloc" /\ last.ret = "ENOMEM"
  /\ \E y \in Yields(calls) :
       /\ \E k \in y..Len(calls) : calls[k].op = "kzalloc"
       /\ buffers[calls[y].buf].st = "freelist"

\* the handles that hold a kernel mapping of buffer b, and the CPU accesses
\* of its export objects that have begun and not ended: what the
\* buffer-level count holds beyond the handles
MappingHandles(hs, b) ==
  {h \in HandleIds : hs[h].st = "live" /\ hs[h].buffer = b /\ hs[h].kmap_cnt \in 1..MaxKmap}
Sessions(bs, hs, b) == bs[b].kmap_cnt - Cardinality(MappingHandles(hs, b))
\* every mapping of b that was taken is counted, and nothing else
Balanced(b) ==
  /\ buffers[b].st = "live"
  /\ Sessions(buffers, handles, b) >= 0
  /\ \A h \in HandleIds :
       (handles[h].st = "live" /\ handles[h].buffer = b) => handles[h].kmap_cnt <= MaxKmap
\* the step gives back a mapping that was not taken
Unpaired(b) ==
  \/ /\ last'.op = "end_cpu_access" /\ dmabufs[last'.val].buffer = b
     /\ Sessions(buffers, handles, b) = 0
  \/ /\ last'.op = "unmap_kernel" /\ handles[last'.handle].kmap_cnt = 0

\* C26: when handles of one or of several clients and CPU accesses of export
\* objects map one buffer, the heap's map_kernel is called only when the
\* buffer-level count goes from 0 to 1 and its unmap_kernel only when the
\* count goes from 1 to 0, and while one of them holds a mapping the cached
\* kernel address stays valid and the same.
C26_OneKernelMappingPerBuffer ==
  [][\A b \in BufIds :
       (Balanced(b) /\ ~Unpaired(b) /\ buffers'[b].st = "live") =>
         /\ (\E k \in Called' : k.op = "map_kernel" /\ k.buf = b) =>
              /\ buffers[b].kmap_cnt = 0
              /\ buffers'[b].kmap_cnt \in {0, 1}
              /\ buffers'[b].kmap_cnt = 1 <=> buffers'[b].vaddr \in Addrs
         /\ (\E k \in Called' : k.op = "unmap_kernel" /\ k.buf = b) =>
              buffers[b].kmap_cnt = 1 /\ buffers'[b].kmap_cnt = 0
         /\ buffers'[b].kmap_cnt # buffers[b].kmap_cnt =>
              \/ buffers'[b].kmap_cnt = buffers[b].kmap_cnt + 1
              \/ buffers'[b].kmap_cnt = buffers[b].kmap_cnt - 1
         /\ (buffers[b].kmap_cnt > 0 /\ buffers'[b].kmap_cnt > 0) =>
              /\ buffers'[b].vaddr = buffers[b].vaddr
              /\ buffers[b].vaddr \in Addrs
              /\ \A k \in Called' : k.buf = b => k.op \notin {"map_kernel", "unmap_kernel"}
         /\ Balanced(b)']_vars

\* handles of two clients and a CPU access hold the same mapping of a
\* buffer, and the last of the handles to map it called no heap
C26_Witness ==
  /\ last.op = "map_kernel" /\ last.ret = "OK" /\ calls = <<>>
  /\ handles[last.handle].kmap_cnt = 1
  /\ LET b == handles[last.handle].buffer
     IN /\ \E h \in MappingHandles(handles, b) : handles[h].client # last.client
        /\ Sessions(buffers, handles, b) = 1
        /\ buffers[b].vaddr = last.val /\ last.val \in Addrs

\* ---- the reclaim policy
\* what client c holds in heap g: the sizes of the buffers its handles are on
RECURSIVE SizeOf(_)
SizeOf(hs) ==
  IF hs = {} THEN 0
  ELSE LET h == CHOOSE x \in hs : TRUE
       IN buffers[handles[h].buffer].size + SizeOf(hs \ {h})

HeldIn(c, g) == SizeOf({h \in chandles[c] : buffers[handles[h].buffer].heap = g})

\* the heaps a scan goes over: the mask of the request for the scan of an
\* Allocate that found no memory, the heap that gave the buffer for the scan
\* after a successful walk
ScanMask(log, k, mask) ==
  IF log[k].r = "OOM" THEN mask
  ELSE {log[y].heap : y \in {i \in Yields(log) : i < k}}

\* the <<client, heap>> pairs a scan with threshold min over mask can select
Candidates(mask, min) ==
  {p \in dev_clients \X (mask \cap HeapIds) :
     /\ clients[p[1]].task
     /\ ~clients[p[1]].deathpending
     /\ clients[p[1]].adj >= min
     /\ HeldIn(p[1], p[2]) > 0}

\* C27: when a reclaim scan selects a victim, the victim has an owning
\* process, is not already marked pending-termination, has a priority value
\* at or above the scan's threshold and holds memory in a heap of the mask;
\* no other such client has a higher priority value, and none of equal
\* priority holds more in a heap of the mask. The scan marks the victim,
\* sends it the termination signal and returns the size the victim holds.
C27_VictimSelection ==
  [][AllocWalk =>
       \A i \in 2..Len(calls') :
         calls'[i].op = "send_sig" =>
           LET v == calls'[i].buf
               g == calls'[i].heap
               scan == calls'[i - 1]
               C == Candidates(ScanMask(calls', i - 1, last'.mask), scan.heap)
           IN /\ scan.op = "ion_shrink"
              /\ <<v, g>> \in C
              /\ \A p \in C :
                   /\ clients[p[1]].adj <= clients[v].adj
                   /\ clients[p[1]].adj = clients[v].adj
                        => HeldIn(p[1], p[2]) <= HeldIn(v, g)
              /\ clients'[v].deathpending
              /\ clients'[v].killed
              /\ scan.buf = HeldIn(v, g)]_vars

\* a scan has chosen between two clients of equal priority by their sizes,
\* or between two clients by their priorities
C27_Witness ==
  /\ last.op \in {"alloc", "alloc_sleep"}
  /\ last.ret \in {"SLEEP", "ENOMEM"}
  /\ \E i \in 1..Len(calls), c \in dev_clients :
       /\ calls[i].op = "send_sig"
       /\ c # calls[i].buf
       /\ clients[c].task /\ ~clients[c].deathpending
       /\ clients[c].adj = clients[calls[i].buf].adj
       /\ HeldIn(c, calls[i].heap) > 0
       /\ HeldIn(c, calls[i].heap) < HeldIn(calls[i].buf, calls[i].heap)

\* the clients whose termination is in flight: marked, and the grace period
\* has not elapsed
InFlight ==
  {c \in dev_clients : clients[c].deathpending /\ jiffies <= clients[c].timeout}

\* C28: a client marked pending-termination is never selected again; while
\* the grace period of a marked client runs, a scan over a mask that matches
\* a heap returns the wait sentinel (-1) and no client is marked or sent the
\* signal, so that at most one termination is in flight; when no grace
\* period runs the scan does not return the sentinel, it returns 0 exactly
\* when no client is eligible, and the Allocate whose scan returned 0 gives
\* up with the out-of-memory error.
C28_OneTerminationInFlight ==
  [][/\ InFlight # {} =>
          \A c \in ClientIds : clients'[c].deathpending => clients[c].deathpending
     /\ AllocWalk =>
          \A k \in 1..Len(calls') :
            calls'[k].op = "ion_shrink" =>
              LET m == ScanMask(calls', k, last'.mask) \cap HeapIds
                  sent == k < Len(calls') /\ calls'[k + 1].op = "send_sig"
              IN /\ sent => ~clients[calls'[k + 1].buf].deathpending
                 /\ (m # {} /\ InFlight # {}) => (calls'[k].buf = -1 /\ ~sent)
                 /\ InFlight = {} =>
                      /\ calls'[k].buf # -1
                      /\ calls'[k].buf = 0 <=> Candidates(m, calls'[k].heap) = {}
                 /\ (calls'[k].r = "OOM" /\ calls'[k].buf = 0)
                      => (last'.op = "alloc" /\ last'.ret = "ENOMEM")]_vars

\* the calls of a walk that failed: the kzalloc of a buffer record, a heap's
\* allocate or its map_dma, or the allocation of the page array
WalkErrors(log) ==
  {i \in 1..Len(log) : /\ log[i].op \in {"kzalloc", "allocate", "map_dma", "vmalloc"}
                       /\ log[i].r \notin {"OK", ""}}

\* the walk tried a heap and no heap gave a buffer
FailedWalk(log) == Yields(log) = {} /\ WalkErrors(log) # {}

\* the error ion_buffer_create returned on the last heap tried
LastError(log) ==
  log[CHOOSE i \in WalkErrors(log) : \A j \in WalkErrors(log) : j <= i].r

Scans(log) == {k \in 1..Len(log) : log[k].op = "ion_shrink"}

\* C29 as stated: whenever every eligible heap fails an Allocate, the reclaim
\* scan is run before a failure is returned; the walk is repeated only if the
\* scan reported a victim or a termination in flight and the caller has no
\* fatal signal pending; in every other case Allocate returns the
\* out-of-memory error.
C29_AsStated ==
  [][(AllocWalk /\ FailedWalk(calls')) =>
       /\ \E k \in Scans(calls') :
            /\ calls'[k].r = "OOM"
            /\ \A i \in WalkErrors(calls') : i < k
            /\ last'.op = "alloc_sleep" =>
                 (calls'[k].buf # 0 /\ ~clients'[last'.client].killed)
       /\ last'.op = "alloc" => last'.ret = "ENOMEM"]_vars

\* C29, amended: when the walk of an Allocate ends without a buffer and the
\* last heap tried failed for lack of memory, the reclaim scan is run once,
\* after the walk, before a failure is returned; the pass ends in a sleep
\* and another walk only if the scan returned non-zero (a victim's size or
\* the wait sentinel) and the caller has no fatal signal pending, and in
\* every other case Allocate returns the out-of-memory error. When the last
\* heap tried failed with another error no scan is run and no walk follows:
\* Allocate returns that error, or the no-device error if the heap's DMA
\* mapping gave no table.
C29_ReclaimOnOutOfMemory ==
  [][(AllocWalk /\ FailedWalk(calls')) =>
       IF LastError(calls') = "ENOMEM"
       THEN /\ Cardinality(Scans(calls')) = 1
            /\ \A k \in Scans(calls') :
                 /\ calls'[k].r = "OOM"
                 /\ \A i \in WalkErrors(calls') : i < k
                 /\ last'.op = "alloc_sleep" =>
                      (calls'[k].buf # 0 /\ ~clients'[last'.client].killed)
                 /\ calls'[k].buf = 0 => last'.op = "alloc"
            /\ last'.op = "alloc" => last'.ret = "ENOMEM"
       ELSE /\ Scans(calls') = {}
            /\ last'.op = "alloc"
            /\ last'.ret = IF LastError(calls') = "NULL" THEN "ENODEV"
                           ELSE LastError(calls')]_vars

\* an Allocate sleeps before another walk: every heap of its mask was out of
\* memory and the scan found a victim
C29_Witness ==
  /\ last.op = "alloc_sleep"
  /\ last.mask = {0, 1}
  /\ FailedWalk(calls)
  /\ \E k \in Scans(calls) : calls[k].buf > 0

\* C30: every Allocate call eventually returns a handle or an error. A call
\* that sleeps before another walk is woken, and with the clock advancing it
\* walks only finitely often: each scan waits on a victim whose grace period
\* then expires, or marks a client that was not marked, and a marked client
\* is never selected again.
C30_AllocateReturns ==
  \A c \in ClientIds : (pending[c] # NoPending) ~> (pending[c] = NoPending)

\* an Allocate has given up after the grace period of the client its scan
\* had marked: no client is left to select
C30_Witness ==
  /\ last.op = "alloc"
  /\ last.ret = "ENOMEM"
  /\ \E k \in Scans(calls) : calls[k].r = "OOM" /\ calls[k].buf = 0
  /\ \E c \in dev_clients : clients[c].deathpending /\ jiffies > clients[c].timeout

\* ---- usage reports
\* C21: in every usage report a buffer of the global buffer index that has no
\* handle attached is counted as orphaned and is not counted as shared, also
\* when handles are attached to it while the report runs: a buffer that has no
\* handle attached when the report tests it for an orphan is counted as
\* orphaned, and no report counts a buffer as orphaned and as shared.
C21_OrphanedNotShared ==
  [][\A t \in Threads :
       /\ pc'[t].orphaned \cap pc'[t].shared = {}
       /\ (/\ pc[t].at = "orphan_test"
           /\ pc'[t].at # "orphan_test" \/ pc'[t].todo # pc[t].todo
           /\ buffers[Head(pc[t].todo)].handle_count = 0)
            => Head(pc[t].todo) \in pc'[t].orphaned]_vars

\* the buffers the step created (ion_buffer_create took their address)
Created == {b \in BufIds : buffers[b].st = "none" /\ buffers'[b].st # "none"}

\* C37: for every non-zero length of the machine word, the length Allocate
\* hands to the heap after page rounding (the size of the buffer the heap
\* filled) is non-zero, a multiple of the page size and at least the
\* requested length: the rounding does not wrap modulo 2^w.
C37_RoundingNeverWraps ==
  [][(last'.op = "alloc" /\ last'.len > 0) =>
       \A b \in Created :
         /\ buffers'[b].size # 0
         /\ buffers'[b].size % PAGE_SIZE = 0
         /\ buffers'[b].size >= last'.len]_vars

\* C36: the kernel-mapping count of a handle never wraps below zero: an
\* UnmapKernel on a live handle whose count is zero leaves the handle's count
\* and the buffer-level count as they were, and an UnmapKernel lowers the
\* buffer-level count only when the handle held a mapping it had taken.
C36_UnmapAtZeroIsIgnored ==
  [][(last'.op = "unmap_kernel" /\ handles[last'.handle].st = "live") =>
       LET h == last'.handle
           b == handles[h].buffer
       IN /\ handles'[h].kmap_cnt <= handles[h].kmap_cnt
          /\ handles[h].kmap_cnt = 0 =>
               /\ handles'[h].kmap_cnt = 0
               /\ buffers'[b].kmap_cnt = buffers[b].kmap_cnt
          /\ buffers'[b].kmap_cnt < buffers[b].kmap_cnt => handles[h].kmap_cnt = 1]_vars

\* ---- the counts of a buffer
\* the live handles on buffer b, over all clients, and its export objects
\* that were not released
LiveHandlesOn(b) == {h \in HandleIds : handles[h].st = "live" /\ handles[h].buffer = b}
ExportsOf(b) == {d \in DmaIds : dmabufs[d].st = "open" /\ dmabufs[d].buffer = b}
Holders(b) == Cardinality(LiveHandlesOn(b)) + Cardinality(ExportsOf(b))

\* C33: when no operation is in progress, the reference count of every
\* buffer is the number of live handles on it plus the number of its
\* unreleased export objects; a buffer has been handed to teardown exactly
\* when that number is zero, and was handed over once.
C33_RefCountIsHolders ==
  Idle =>
    \A b \in BufIds :
      /\ buffers[b].st = "live" => buffers[b].ref = Holders(b) /\ Holders(b) > 0
      /\ buffers[b].st \in {"freelist", "freed"} =>
           /\ Holders(b) = 0
           /\ buffers[b].torn = (IF buffers[b].st = "freed" THEN 1 ELSE 0)
           /\ Cardinality({<<g, i>> \in HeapIds \X (1..MaxBuffers) :
                             i <= Len(free_list[g]) /\ free_list[g][i] = b})
                = (IF buffers[b].st = "freelist" THEN 1 ELSE 0)

\* a buffer with a handle in each of two clients and an export object
C33_Witness ==
  /\ Idle
  /\ \E b \in BufIds :
       /\ buffers[b].st = "live" /\ buffers[b].ref = 3
       /\ Cardinality(LiveHandlesOn(b)) = 2 /\ Cardinality(ExportsOf(b)) = 1
  /\ \E b \in BufIds : buffers[b].st = "freed"

\* C34: when no operation is in progress, the handle-attachment count of
\* every buffer is the number of live handles on it over all clients; so it
\* is at least 1 for the buffer of every handle in a client's set (the
\* proportional share of a client divides by it), and it is never negative.
C34_HandleCountIsHandles ==
  Idle =>
    /\ \A b \in BufIds :
         /\ buffers[b].handle_count = Cardinality(LiveHandlesOn(b))
         /\ buffers[b].handle_count >= 0
    /\ \A c \in ClientIds : \A h \in chandles[c] :
         /\ handles[h].st = "live"
         /\ buffers[handles[h].buffer].st = "live"
         /\ buffers[handles[h].buffer].handle_count >= 1

\* a buffer with a handle in each of two clients, kept by its export object
\* as well
C34_Witness ==
  /\ Idle
  /\ \E b \in BufIds :
       /\ buffers[b].st = "live" /\ buffers[b].handle_count = 2
       /\ buffers[b].ref = 3 /\ ExportsOf(b) # {}
       /\ \E h, g \in LiveHandlesOn(b) :
            /\ handles[h].client # handles[g].client
            /\ h \in chandles[handles[h].client] /\ g \in chandles[handles[g].client]

\* C31: every step that puts a handle into a client's handle set or takes
\* one out is made by the thread that holds that client's lock (an operation
\* that runs as one step takes and releases the lock within the step), so
\* no walk of the set under the client's lock has a handle removed under it.
C31_HandleSetUnderLock ==
  [][\A c \in ClientIds :
       chandles'[c] # chandles[c] =>
         /\ last'.op = "idle" =>
              /\ client_lock[c] \in Threads
              /\ pc'[client_lock[c]] # pc[client_lock[c]]
         /\ \A t \in Threads : ~(pc[t].at = "total_visit" /\ pc[t].client = c)]_vars

\* the reference count of buffer b has reached zero: the buffer was handed
\* to teardown
BufferGone(b) == buffers[b].st \notin {"none", "live"}

\* C32: however Free and client destruction interleave with
\* QueryPhysicalAddress, Share, MapKernel and Import, no step of them calls a
\* heap operation on a buffer, or takes a reference on one, whose reference
\* count has already reached zero.
C32_NoUseAfterLastPut ==
  [][\A b \in BufIds :
       BufferGone(b) =>
         /\ \A k \in Called' : k.buf = b => k.op \notin {"phys", "map_kernel"}
         /\ buffers'[b].ref <= buffers[b].ref
         /\ \A t \in Threads :
              (pc[t].at \in {"share_get", "import_take"} /\ pc'[t] # pc[t]) =>
                pc'[t].buf # b]_vars

\* the sizes of the buffers of heap h that were created and not torn down,
\* those on the free-list included
RECURSIVE SizesOf(_)
SizesOf(bs) ==
  IF bs = {} THEN 0
  ELSE LET b == CHOOSE x \in bs : TRUE IN buffers[b].size + SizesOf(bs \ {b})
InUse(h) == SizesOf({b \in BufIds : buffers[b].st \in {"live", "freelist"}
                                    /\ buffers[b].heap = h})

\* C35: once the Allocates and Frees of all threads have completed, the
\* usage counter of every heap is the sum of the sizes of its buffers that
\* were created and not yet torn down: no increment or decrement is lost.
C35_UsedIsSumOfSizes ==
  (Idle /\ \A t \in Threads : pc[t].at = "idle") =>
    \A h \in HeapIds : used[h] = InUse(h)

\* thread t waits for a lock that thread u holds
WaitsFor(t, u) == t # u /\ pc[t].want # <<>> /\ Excludes(u, pc[t].want)

\* C38: no interleaving of the operations reaches a state in which every
\* thread of some set waits for a lock (dev->lock, dev->buffer_lock, a client
\* lock, a buffer lock or a heap's free-list lock) that another thread of the
\* set holds.
C38_NoLockCycle ==
  \A S \in SUBSET Threads :
    S # {} => \E t \in S : \A u \in S : ~WaitsFor(t, u)

\* a thread that holds a client lock waits for a buffer lock, which a second
\* thread holds, and a third one waits to take dev->lock for writing while
\* the second one holds it for reading
C38_Witness ==
  \E t, u, v \in Threads :
    /\ pc[t].locks = <<"client">> /\ pc[t].want # <<>> /\ pc[t].want[1] = "buffer"
    /\ WaitsFor(t, u)
    /\ pc[u].locks[1] = "dev"
    /\ pc[v].want = <<"dev_w", 0>> /\ WaitsFor(v, u)

====
